---- MODULE Spec2Model ----
(***************************************************************************)
(* Model of the AdvancedADC acquisition engine (AdvancedADC.cpp):          *)
(* the unit descriptors adc_descr_all[], the AdvancedADC objects, the      *)
(* DMA buffer pool with its free (write) and ready (read) queues, the      *)
(* double-buffered DMA stream, the conversion-complete callback and the    *)
(* AdvancedADCDual object that couples ADC1 and ADC2.                       *)
(*                                                                         *)
(* Scheduling: one application thread plus the DMA interrupt.  The         *)
(* callback runs to completion (one action); application calls are one     *)
(* action each, except DMAPool::flush(), whose loop can be preempted by    *)
(* the interrupt between two queue operations, and AdvancedADCDual::begin, *)
(* which can be preempted between its calls to the two objects.            *)
(*                                                                         *)
(* Environment: the application does not touch buffers of a pool that has  *)
(* been deleted.  available() and read() on a descriptor without pool are  *)
(* AvailableNoPool (SpecMisuse) and ReadNoPool (SpecRead); elsewhere the   *)
(* application does not make these calls.  read() is one action, taken     *)
(* when a buffer is ready, except in SpecRead, where the call and the      *)
(* return are two steps and the application waits in between.              *)
(***************************************************************************)
EXTENDS Integers, Sequences, FiniteSets, TLC

VARIABLES
    adc_index,  \* AdvancedADC::adc_index, per object (-1: automatic selection)
    adc_pins,   \* AdvancedADC::adc_pins[0..n_channels-1], per object
    descr,      \* AdvancedADC::descr, per object: a unit index or NULL
    pool,       \* adc_descr_t::pool, per unit: NoPool or the pool's state
    dmabuf,     \* adc_descr_t::dmabuf[2], per unit (0: nullptr)
    hw,         \* per unit: DMA stream (enabled, CT bit, M0AR/M1AR) and timer
    held,       \* per unit: buffers the application got from read(), not yet released
    app,        \* position of the application thread (idle, or inside flush())
    tick,       \* us_ticker_read()
    ret,        \* what the application call that returned last returned (a buffer: TRUE)
    hist,       \* per unit: history of the current configuration (observation only)
    dual_mode   \* the ADC1/ADC2 common multimode setting: TRUE while dual mode is enabled

vars == <<adc_index, adc_pins, descr, pool, dmabuf, hw, held, app, tick, ret, hist, dual_mode>>

-----------------------------------------------------------------------------
(* Bounds *)

\* largest n_buffers passed to begin()
MaxBuffers == 3
\* number of completions observed (the ticker stops the model there)
MaxTick == 3
\* n_samples (samples per channel in a buffer) runs over 1 .. MaxSamples
MaxSamples == 2

(* Program constants *)

\* AN_ARRAY_SIZE(adc_descr_all)
NumUnits == 3
\* AN_ARRAY_SIZE(adc_pin_alt)
NumAlt == 3

Units == 0 .. (NumUnits - 1)
NULL == -1
NoPool == [n |-> 0]
MinOf(S) == CHOOSE x \in S : \A y \in S : x <= y
Range(q) == {q[i] : i \in DOMAIN q}
Objects == {"a", "b"}

\* DMA buffer flags
DMA_BUFFER_READ == "R"
DMA_BUFFER_WRITE == "W"
DMA_BUFFER_DISCONT == "D"
DMA_BUFFER_INTRLVD == "I"

\* n_buffers values the application passes to begin() (the pool needs the two
\* armed buffers)
BufCounts == 2 .. MaxBuffers

\* PinMap_ADC: the units a pin reaches, indexed by alternate function
\* (none, ALT0, ALT1); pinmap_find_peripheral() gives NC past the end.
PinMap_ADC ==
    [PA_0  |-> <<0>>,
     PA_0C |-> <<0, 1>>,
     PC_0  |-> <<0, 1, 2>>,
     PC_2C |-> <<2>>]

PinNames == DOMAIN PinMap_ADC

\* a pin name with its ALTx bits
Pin(name, alt) == [name |-> name, alt |-> alt]

\* pinmap_find_peripheral(pin, PinMap_ADC) != NC
Mapped(name, alt) == alt + 1 <= Len(PinMap_ADC[name])

\* pinmap_peripheral(pin, PinMap_ADC), for a mapped pin
Peripheral(name, alt) == PinMap_ADC[name][alt + 1]

-----------------------------------------------------------------------------
(* DMAPool<Sample> and DMABuffer<Sample>: the pool's queues and the buffers' *)
(* flags.  A pool is a record: n buffers 1..n, nch channels, the write       *)
(* (free) queue wr, the read (ready) queue rd, and per buffer the flags,     *)
(* the timestamp, the samples, and the state of the data cache over the      *)
(* buffer's memory: "clean" (the cache holds nothing that differs from       *)
(* memory), "stale" (the DMA has written memory the cache does not show) or  *)
(* "dirty" (the cache holds writes that have not reached memory).            *)

\* DMAPool(n_samples, n_channels, n_buffers): n buffers of ns samples for
\* each of nch channels, every buffer in the write queue, nothing in them
PoolNew(ns, nch, n) ==
    [n |-> n, nch |-> nch, ns |-> ns,
     wr |-> [i \in 1 .. n |-> i], rd |-> <<>>,
     flags |-> [i \in 1 .. n |-> {}],
     ts |-> [i \in 1 .. n |-> 0],
     data |-> [i \in 1 .. n |-> <<>>],
     cache |-> [i \in 1 .. n |-> "clean"]]

\* DMABuffer::channels(), DMABuffer::size() of buffer b of pool p
channels(p, b) == p.nch
size(p, b) == p.ns * p.nch

\* DMAPool::writable(), DMAPool::readable()
Writable(p) == p.wr # <<>>
Readable(p) == p.rd # <<>>

\* DMABuffer::set_flags
SetFlags(p, b, f) == [p EXCEPT !.flags[b] = @ \cup f]

\* DMAPool::alloc(flags): the buffer returned (0: nullptr) ...
AllocBuf(p, flag) ==
    IF flag = DMA_BUFFER_READ
    THEN (IF p.rd = <<>> THEN 0 ELSE Head(p.rd))
    ELSE (IF p.wr = <<>> THEN 0 ELSE Head(p.wr))

\* ... and the pool afterwards
Alloc(p, flag) ==
    LET b == AllocBuf(p, flag) IN
    IF b = 0 THEN p
    ELSE IF flag = DMA_BUFFER_READ
         THEN SetFlags([p EXCEPT !.rd = Tail(@)], b, {flag})
         ELSE SetFlags([p EXCEPT !.wr = Tail(@)], b, {flag})

\* DMABuffer::release() -> DMAPool::free(buf, flags): a buffer that was read
\* goes back to the write queue with its flags cleared, a buffer that was
\* written goes to the tail of the read queue
Free(p, b) ==
    IF DMA_BUFFER_READ \in p.flags[b]
    THEN [p EXCEPT !.flags[b] = {}, !.wr = Append(@, b)]
    ELSE [p EXCEPT !.rd = Append(@, b)]

\* DMAPool::flush(): while (readable()) { alloc(DMA_BUFFER_READ)->release(); }
\* run without a completion in between
RECURSIVE flush(_)
flush(p) ==
    IF p.rd = <<>> THEN p
    ELSE flush(Free(Alloc(p, DMA_BUFFER_READ), Head(p.rd)))

\* DMABuffer::invalidate(): the cached lines of the buffer are discarded
invalidate(p, b) == [p EXCEPT !.cache[b] = "clean"]

\* DMABuffer::timestamp(ts)
Stamp(p, b, now) == [p EXCEPT !.ts[b] = now]

-----------------------------------------------------------------------------
(* The DMA stream of a unit: enabled or not, the CT bit (the target the      *)
(* hardware is writing), the two target registers M0AR/M1AR (buffer ids),    *)
(* and the unit's timer, which paces the conversions.                        *)

HwOff == [en |-> FALSE, tim |-> FALSE, ct |-> 0, m |-> <<0, 0>>]

\* hal_dma_get_ct
hal_dma_get_ct(h) == h.ct

\* (variant with a slip: the target the hardware is writing gets addr)
hal_dma_update_memory_current(h, addr) ==
    [h EXCEPT !.m[h.ct + 1] = addr]

\* hal_dma_update_memory: the target the hardware is not writing gets addr
hal_dma_update_memory(h, addr) ==
    [h EXCEPT !.m[(1 - h.ct) + 1] = addr]

\* hal_dma_enable_dbm: double buffer mode, both targets, CT = 0
hal_dma_enable_dbm(h, m0, m1) == [h EXCEPT !.ct = 0, !.m = <<m0, m1>>]

\* (variant with a slip: the descriptor is taken for null, nothing is stopped)
adc_descr_stop_skipped(h) == h

\* adc_descr_stop: HAL_TIM_Base_Stop, HAL_ADC_Stop_DMA
adc_descr_stop(h) == [h EXCEPT !.tim = FALSE, !.en = FALSE]

\* One transfer of the DMA into buffer b of pool p: the ADC converts its
\* regular sequence (rank 1 .. nch, the channels in the order of adc_pins)
\* once per timer trigger and the DMA stores each conversion at the next
\* offset.  A stored sample is tagged with its channel and its index.  The
\* DMA writes memory behind the cache.
HwFill(p, b) ==
    [p EXCEPT !.data[b] =
        [j \in 1 .. (p.ns * p.nch) |-> [ch |-> (j - 1) % p.nch, i |-> (j - 1) \div p.nch]],
              !.cache[b] = "stale"]

\* hal_adc_enable_dual_mode(enable): the multimode setting afterwards
hal_adc_enable_dual_mode(enable) == enable

\* the unit's conversions are triggered: by its own timer, or, for ADC2 in
\* dual mode, by the master's (ADC1's) trigger
Triggered(u) == hw[u].tim \/ (dual_mode /\ u = 1 /\ hw[0].tim)

\* the unit converts: it was started on its DMA stream (HAL_ADC_Start_DMA)
\* and its conversions are triggered
Running(u) == hw[u].en /\ Triggered(u)

-----------------------------------------------------------------------------
(* History of a unit's current configuration (read by the properties only)  *)

HistNone ==
    [owner |-> "none", ovf |-> FALSE, stall |-> 0, epi |-> {}, ns |-> 0, k |-> 0, gap |-> {},
     sovf |-> FALSE]

\* the buffers of p that a completion has stamped
Stamped(p) == {b \in 1 .. p.n : p.ts[b] # 0}

\* a capture that has delivered is stopped and started again: the buffer in
\* dmabuf[0] is the first to complete after the restart (it is remembered
\* until the application releases it)
Restarted(h, p, db, ok) ==
    IF ok /\ Stamped(p) # {} THEN [h EXCEPT !.gap = @ \cup {db[1]}] ELSE h

\* an application read/release/flush on the unit ends a stall
Resumed(h) == [h EXCEPT !.stall = 0, !.epi = {}]

\* the application thread: outside clear(), or inside DMAPool::flush() on a
\* unit with the buffer it is moving; t0, rd0 and db0 record the ticker, the
\* ready queue and the armed buffers at the call (read by the properties only)
Idle == [pc |-> "idle", unit |-> NULL, buf |-> 0, t0 |-> 0, rd0 |-> <<>>, db0 |-> <<0, 0>>]

TypeOK ==
    /\ adc_index \in [Objects -> Units \cup {NULL}]
    /\ descr \in [Objects -> Units \cup {NULL}]
    /\ \A o \in Objects : Len(adc_pins[o]) >= 1
    /\ \A u \in Units :
        /\ pool[u].n \in 0 .. MaxBuffers
        /\ dmabuf[u] \in Seq(0 .. MaxBuffers) /\ Len(dmabuf[u]) = 2
        /\ hw[u].ct \in 0 .. 1
        /\ held[u] \subseteq 1 .. MaxBuffers
    /\ tick \in 0 .. MaxTick
    /\ app.pc \in {"idle", "flush", "dual_adc2", "dual_check", "deinit", "read", "fault"}
    /\ dual_mode \in BOOLEAN

-----------------------------------------------------------------------------
(* HAL_ADC_ConvCpltCallback *)

\* Variants of the callback with a slip in it (used to test the properties).
\* The finished buffer is published but stays armed: no fresh buffer is taken.
ConvCplt_KeepArmed(p, db, h, now) ==
    LET ct == 1 - hal_dma_get_ct(h)
        b  == db[ct + 1]
        p1 == Stamp(p, b, now)
    IN  IF Writable(p1)
        THEN [pool |-> Free(invalidate(p1, b), b), dmabuf |-> db, hw |-> hal_dma_update_memory(h, b)]
        ELSE [pool |-> SetFlags(p1, b, {DMA_BUFFER_DISCONT}), dmabuf |-> db,
              hw |-> hal_dma_update_memory(h, b)]

\* A fresh buffer is armed but the finished one is never released.
ConvCplt_Leak(p, db, h, now) ==
    LET ct == 1 - hal_dma_get_ct(h)
        b  == db[ct + 1]
        p1 == Stamp(p, b, now)
    IN  IF Writable(p1)
        THEN LET nb == AllocBuf(p1, DMA_BUFFER_WRITE)
                 nd == [db EXCEPT ![ct + 1] = nb]
             IN  [pool |-> Alloc(p1, DMA_BUFFER_WRITE), dmabuf |-> nd,
                  hw |-> hal_dma_update_memory(h, nb)]
        ELSE [pool |-> SetFlags(p1, b, {DMA_BUFFER_DISCONT}), dmabuf |-> db,
              hw |-> hal_dma_update_memory(h, b)]

\* On overflow the oldest ready buffer is dropped to make room.
ConvCplt_DropOldest(p, db, h, now) ==
    LET ct == 1 - hal_dma_get_ct(h)
        b  == db[ct + 1]
        p1 == Stamp(p, b, now)
        pw == IF Writable(p1) \/ ~Readable(p1) THEN p1
              ELSE [p1 EXCEPT !.wr = <<Head(p1.rd)>>, !.rd = Tail(@),
                              !.flags[Head(p1.rd)] = {}]
    IN  IF Writable(pw)
        THEN LET p2 == Free(invalidate(pw, b), b)
                 nb == AllocBuf(p2, DMA_BUFFER_WRITE)
                 nd == [db EXCEPT ![ct + 1] = nb]
             IN  [pool |-> Alloc(p2, DMA_BUFFER_WRITE), dmabuf |-> nd,
                  hw |-> hal_dma_update_memory(h, nb)]
        ELSE [pool |-> SetFlags(p1, b, {DMA_BUFFER_DISCONT}), dmabuf |-> db,
              hw |-> hal_dma_update_memory(h, b)]

\* The ticker is not read: the finished buffer keeps its old timestamp.
ConvCplt_NoStamp(p, db, h, now) ==
    LET ct == 1 - hal_dma_get_ct(h)
        b  == db[ct + 1]
    IN  IF Writable(p)
        THEN LET p2 == Free(invalidate(p, b), b)
                 nb == AllocBuf(p2, DMA_BUFFER_WRITE)
                 nd == [db EXCEPT ![ct + 1] = nb]
             IN  [pool |-> Alloc(p2, DMA_BUFFER_WRITE), dmabuf |-> nd,
                  hw |-> hal_dma_update_memory(h, nb)]
        ELSE [pool |-> SetFlags(p, b, {DMA_BUFFER_DISCONT}), dmabuf |-> db,
              hw |-> hal_dma_update_memory(h, b)]

\* DISCONT is set on every finished buffer.
ConvCplt_AlwaysDiscont(p, db, h, now) ==
    LET ct == 1 - hal_dma_get_ct(h)
        b  == db[ct + 1]
        p1 == SetFlags(Stamp(p, b, now), b, {DMA_BUFFER_DISCONT})
    IN  IF Writable(p1)
        THEN LET p2 == Free(invalidate(p1, b), b)
                 nb == AllocBuf(p2, DMA_BUFFER_WRITE)
                 nd == [db EXCEPT ![ct + 1] = nb]
             IN  [pool |-> Alloc(p2, DMA_BUFFER_WRITE), dmabuf |-> nd,
                  hw |-> hal_dma_update_memory(h, nb)]
        ELSE [pool |-> p1, dmabuf |-> db, hw |-> hal_dma_update_memory(h, b)]

\* DISCONT is never set.
ConvCplt_NoDiscont(p, db, h, now) ==
    LET ct == 1 - hal_dma_get_ct(h)
        b  == db[ct + 1]
        p1 == Stamp(p, b, now)
    IN  IF Writable(p1)
        THEN LET p2 == Free(invalidate(p1, b), b)
                 nb == AllocBuf(p2, DMA_BUFFER_WRITE)
                 nd == [db EXCEPT ![ct + 1] = nb]
             IN  [pool |-> Alloc(p2, DMA_BUFFER_WRITE), dmabuf |-> nd,
                  hw |-> hal_dma_update_memory(h, nb)]
        ELSE [pool |-> p1, dmabuf |-> db, hw |-> hal_dma_update_memory(h, b)]

\* slip: the test of writable() is inverted, the handler takes the overflow
\* branch although a free buffer waits
ConvCplt_Inverted(p, db, h, now) ==
    LET ct == 1 - hal_dma_get_ct(h)
        b  == db[ct + 1]
        p1 == Stamp(p, b, now)
    IN  [pool |-> SetFlags(p1, b, {DMA_BUFFER_DISCONT}),
         dmabuf |-> db,
         hw |-> hal_dma_update_memory(h, b)]

\* slip: the finished buffer is published without invalidate()
ConvCplt_NoInvalidate(p, db, h, now) ==
    LET ct == 1 - hal_dma_get_ct(h)
        b  == db[ct + 1]
        p1 == Stamp(p, b, now)
    IN  IF Writable(p1)
        THEN LET p2 == Free(p1, b)
                 nb == AllocBuf(p2, DMA_BUFFER_WRITE)
                 p3 == Alloc(p2, DMA_BUFFER_WRITE)
                 p4 == IF p3.nch > 1 THEN SetFlags(p3, nb, {DMA_BUFFER_INTRLVD}) ELSE p3
                 nd == [db EXCEPT ![ct + 1] = nb]
             IN  [pool |-> p4, dmabuf |-> nd, hw |-> hal_dma_update_memory(h, nd[ct + 1])]
        ELSE [pool |-> SetFlags(p1, b, {DMA_BUFFER_DISCONT}),
              dmabuf |-> db,
              hw |-> hal_dma_update_memory(h, db[ct + 1])]

\* slip: on overflow the finished buffer is published as well as kept armed
ConvCplt_PublishOnOverflow(p, db, h, now) ==
    LET ct == 1 - hal_dma_get_ct(h)
        b  == db[ct + 1]
        p1 == Stamp(p, b, now)
    IN  IF Writable(p1)
        THEN LET p2 == Free(invalidate(p1, b), b)
                 nb == AllocBuf(p2, DMA_BUFFER_WRITE)
                 p3 == Alloc(p2, DMA_BUFFER_WRITE)
                 p4 == IF p3.nch > 1 THEN SetFlags(p3, nb, {DMA_BUFFER_INTRLVD}) ELSE p3
                 nd == [db EXCEPT ![ct + 1] = nb]
             IN  [pool |-> p4, dmabuf |-> nd, hw |-> hal_dma_update_memory(h, nd[ct + 1])]
        ELSE [pool |-> Free(SetFlags(p1, b, {DMA_BUFFER_DISCONT}), b),
              dmabuf |-> db,
              hw |-> hal_dma_update_memory(h, db[ct + 1])]

\* the callback proper: p the unit's pool, db its dmabuf[], h its DMA stream
\* (CT already switched by the hardware), now the ticker
ConvCpltCallback(p, db, h, now) ==
    LET ct == 1 - hal_dma_get_ct(h)
        b  == db[ct + 1]
        p1 == Stamp(p, b, now)
    IN  IF Writable(p1)
        THEN LET p2 == Free(invalidate(p1, b), b)
                 nb == AllocBuf(p2, DMA_BUFFER_WRITE)
                 p3 == Alloc(p2, DMA_BUFFER_WRITE)
                 p4 == IF p3.nch > 1 THEN SetFlags(p3, nb, {DMA_BUFFER_INTRLVD}) ELSE p3
                 nd == [db EXCEPT ![ct + 1] = nb]
             IN  [pool |-> p4, dmabuf |-> nd, hw |-> hal_dma_update_memory(h, nd[ct + 1])]
        ELSE [pool |-> SetFlags(p1, b, {DMA_BUFFER_DISCONT}),
              dmabuf |-> db,
              hw |-> hal_dma_update_memory(h, db[ct + 1])]

\* descr->pool != nullptr (a pool made for 0 buffers is a pool)
HasPool(u) == pool[u] # NoPool

\* buffers of p that carry DISCONT
Discont(p) == {b \in 1 .. p.n : DMA_BUFFER_DISCONT \in p.flags[b]}

\* One transfer completes on unit u at ticker value now: the hardware
\* switches CT to the other target and raises the interrupt, the handler
\* runs to its end.
Completion(u, now) ==
    /\ Running(u)
    /\ HasPool(u)
    /\ LET h0  == [hw[u] EXCEPT !.ct = 1 - @]
           fin == dmabuf[u][(1 - h0.ct) + 1]
           r   == ConvCpltCallback(HwFill(pool[u], fin), dmabuf[u], h0, now)
           ovf == ~Writable(pool[u])
       IN  /\ pool' = [pool EXCEPT ![u] = r.pool]
           /\ dmabuf' = [dmabuf EXCEPT ![u] = r.dmabuf]
           /\ hw' = [hw EXCEPT ![u] = r.hw]
           /\ hist' = [hist EXCEPT ![u] =
                 [@ EXCEPT !.ovf = @ \/ ovf,
                           !.sovf = @ \/ ovf,
                           !.stall = IF @ < pool[u].n - 1 THEN @ + 1 ELSE @,
                           !.epi = @ \cup (Discont(r.pool) \ Discont(pool[u]))
                                     \cup (IF ovf THEN Discont(r.pool) \cap {fin} ELSE {})]]
    /\ UNCHANGED <<adc_index, dual_mode, adc_pins, descr, held, app, ret>>

\* a completion within the window of MaxTick ticks the model observes
ISR(u) ==
    /\ tick < MaxTick
    /\ Completion(u, tick + 1)
    /\ tick' = tick + 1

\* a completion after the window: the engine goes on converting, its
\* buffers are stamped with the last tick observed
ISRLate(u) ==
    /\ tick = MaxTick
    /\ Completion(u, tick)
    /\ UNCHANGED tick

-----------------------------------------------------------------------------
(* AdvancedADC::available, AdvancedADC::read, DMABuffer::release (by the     *)
(* application), AdvancedADC::clear                                          *)

\* (variant with a slip: the wrong queue is asked)
available_writable(o) ==
    IF descr[o] # NULL THEN Writable(pool[descr[o]]) ELSE FALSE

\* AdvancedADC::available() of an object whose descriptor, if any, has a pool
available(o) ==
    IF descr[o] # NULL THEN Readable(pool[descr[o]]) ELSE FALSE

Available(o) ==
    /\ app.pc = "idle"
    /\ descr[o] # NULL => HasPool(descr[o])
    /\ ret' = available(o)
    /\ UNCHANGED <<adc_index, dual_mode, adc_pins, descr, pool, dmabuf, hw, held, app, tick, hist>>

\* (variant with a slip: the buffer returned stays in the read queue)
read_pool_peek(p) ==
    IF p.rd = <<>> THEN p ELSE SetFlags(p, Head(p.rd), {DMA_BUFFER_READ})

\* read(), descr != nullptr: the pool after alloc(DMA_BUFFER_READ) ...
read_pool(p) == Alloc(p, DMA_BUFFER_READ)
\* ... and the buffer returned
read_buf(p) == AllocBuf(p, DMA_BUFFER_READ)

\* read() returns once available() holds (it waits in __WFI() until then)
Read(o) ==
    /\ app.pc = "idle"
    /\ descr[o] # NULL
    /\ HasPool(descr[o])
    /\ available(o)
    /\ LET u == descr[o]
           b == read_buf(pool[u])
       IN  /\ pool' = [pool EXCEPT ![u] = read_pool(@)]
           /\ held' = [held EXCEPT ![u] = @ \cup ({b} \ {0})]
           /\ ret' = TRUE
           /\ hist' = [hist EXCEPT ![u] = Resumed(@)]
    /\ UNCHANGED <<adc_index, dual_mode, adc_pins, descr, dmabuf, hw, app, tick>>

\* read(), descr == nullptr: NULLBUF, at once
ReadNull(o) ==
    /\ app.pc = "idle"
    /\ descr[o] = NULL
    /\ ret' = FALSE
    /\ UNCHANGED <<adc_index, dual_mode, adc_pins, descr, pool, dmabuf, hw, held, app, tick, hist>>

\* the application releases a buffer it got from read() on unit u
Release(u, b) ==
    /\ app.pc = "idle"
    /\ HasPool(u)
    /\ b \in held[u]
    /\ pool' = [pool EXCEPT ![u] = Free(@, b)]
    /\ held' = [held EXCEPT ![u] = @ \ {b}]
    /\ ret' = TRUE
    /\ hist' = [hist EXCEPT ![u] = [Resumed(@) EXCEPT !.gap = @ \ {b}]]
    /\ UNCHANGED <<adc_index, dual_mode, adc_pins, descr, dmabuf, hw, app, tick>>

\* clear(): enters DMAPool::flush() if the object has a descriptor with a pool
Clear(o) ==
    /\ app.pc = "idle"
    /\ IF descr[o] # NULL /\ HasPool(descr[o])
       THEN /\ app' = [pc |-> "flush", unit |-> descr[o], buf |-> 0, t0 |-> tick,
                        rd0 |-> pool[descr[o]].rd, db0 |-> dmabuf[descr[o]]]
            /\ hist' = [hist EXCEPT ![descr[o]] = Resumed(@)]
            /\ UNCHANGED ret
       ELSE /\ ret' = FALSE
            /\ UNCHANGED <<app, hist>>
    /\ UNCHANGED <<adc_index, dual_mode, adc_pins, descr, pool, dmabuf, hw, held, tick>>

\* flush(): while (readable()) { buf = alloc(DMA_BUFFER_READ); ...
FlushPop ==
    /\ app.pc = "flush" /\ app.buf = 0
    /\ Readable(pool[app.unit])
    /\ app' = [app EXCEPT !.buf = AllocBuf(pool[app.unit], DMA_BUFFER_READ)]
    /\ pool' = [pool EXCEPT ![app.unit] = Alloc(@, DMA_BUFFER_READ)]
    /\ hist' = [hist EXCEPT ![app.unit] = Resumed(@)]
    /\ UNCHANGED <<adc_index, dual_mode, adc_pins, descr, dmabuf, hw, held, tick, ret>>

\* ... buf->release(); }
FlushRelease ==
    /\ app.pc = "flush" /\ app.buf # 0
    /\ pool' = [pool EXCEPT ![app.unit] = Free(@, app.buf)]
    /\ app' = [app EXCEPT !.buf = 0]
    /\ hist' = [hist EXCEPT ![app.unit] = [Resumed(@) EXCEPT !.gap = @ \ {app.buf}]]
    /\ UNCHANGED <<adc_index, dual_mode, adc_pins, descr, dmabuf, hw, held, tick, ret>>

\* flush() finds the read queue empty and clear() returns
FlushDone ==
    /\ app.pc = "flush" /\ app.buf = 0
    /\ ~Readable(pool[app.unit])
    /\ app' = Idle
    /\ ret' = TRUE
    /\ UNCHANGED <<adc_index, dual_mode, adc_pins, descr, pool, dmabuf, hw, held, tick, hist>>

-----------------------------------------------------------------------------
(* AdvancedADC::begin *)

\* "Clear ALTx pin": every pin without its ALTx bits
ClearAlt(pins) == [i \in DOMAIN pins |-> Pin(pins[i].name, 0)]

\* the alternate functions 0 .. NumAlt-1 the loops reach for a pin (they
\* break at the first one that is not mapped)
Alts(name) == {i \in 0 .. (NumAlt - 1) : \A k \in 0 .. i : Mapped(name, k)}

\* explicit unit d: the first alternate function of the first pin on d
AltOnUnit(name, d) == {i \in Alts(name) : Peripheral(name, i) = d}

\* (variant with a slip: the scan does not ask whether the unit has a pool)
AltOnFree_any(name) == Alts(name)

\* automatic selection: the first alternate function of the first pin whose
\* unit has no pool
AltOnFree(name) == {i \in Alts(name) : ~HasPool(Peripheral(name, i))}

\* (variant with a slip: only the resolution is checked)
begin_rejects_resolution(o, resOk) == ~resOk

\* the sanity checks of begin(): bad resolution, or the object's descriptor
\* already has a pool
begin_rejects(o, resOk) ==
    ~resOk \/ (descr[o] # NULL /\ HasPool(descr[o]))

\* (variant with a slip: the check of the explicit unit's pool is missing)
begin_unit_owned_unchecked(o) == FALSE

\* the explicit unit is already owned
begin_unit_owned(o) ==
    adc_index[o] \in Units /\ HasPool(adc_index[o])

\* (variant with a slip: the scan keeps the last free unit, not the first)
begin_first_alt_last(o) ==
    LET name == adc_pins[o][1].name
        as   == IF adc_index[o] \in Units THEN AltOnUnit(name, adc_index[o]) ELSE AltOnFree(name)
    IN  {i \in as : \A k \in as : k <= i}

\* the alternate function chosen for the first pin (a set: empty if none)
begin_first_alt(o) ==
    LET name == adc_pins[o][1].name IN
    IF adc_index[o] \in Units THEN AltOnUnit(name, adc_index[o]) ELSE AltOnFree(name)

\* adc_pins[] once the channels are routed to unit inst, first pin on alt a0
begin_pins(o, inst, a0) ==
    [i \in DOMAIN adc_pins[o] |->
        IF i = 1 THEN Pin(adc_pins[o][1].name, a0)
        ELSE LET name == adc_pins[o][i].name
                 as   == AltOnUnit(name, inst)
             IN  IF as = {} THEN Pin(name, 0) ELSE Pin(name, MinOf(as))]

\* (variant with a slip: the count of routed channels is not checked)
begin_ch_init_unchecked(o, inst) == Len(adc_pins[o])

\* ch_init: the channels that reach unit inst
begin_ch_init(o, inst) ==
    1 + Cardinality({i \in DOMAIN adc_pins[o] :
                        i > 1 /\ AltOnUnit(adc_pins[o][i].name, inst) # {}})

\* (variant with a slip: the ongoing conversion is not stopped first, and
\* HAL_ADC_Start_DMA answers HAL_BUSY on an enabled ADC)
start_hw_busy(h, db, s) ==
    LET h3 == hal_dma_enable_dbm([h EXCEPT !.en = TRUE], db[1], db[2])
    IN  IF h.en \/ s = "adcdma" THEN [hw |-> h, ok |-> FALSE]
        ELSE IF s = "tim" THEN [hw |-> h3, ok |-> FALSE]
        ELSE [hw |-> [h3 EXCEPT !.tim = TRUE], ok |-> TRUE]

\* AdvancedADC::start on unit state (h, db); s is what the HAL calls answer
start_hw(h, db, s) ==
    LET h1 == adc_descr_stop(h)
        h2 == [h1 EXCEPT !.en = TRUE, !.ct = 0, !.m = <<db[1], 0>>]
        h3 == hal_dma_enable_dbm(h2, db[1], db[2])
    IN  IF s = "adcdma" THEN [hw |-> h1, ok |-> FALSE]
        ELSE IF s = "tim" THEN [hw |-> h3, ok |-> FALSE]
        ELSE [hw |-> [h3 EXCEPT !.tim = TRUE], ok |-> TRUE]

\* what the HAL answers to start(): all calls succeed, HAL_ADC_Start_DMA
\* fails, or the timer's configuration or start fails
StartResults == {"ok", "adcdma", "tim"}
\* what the allocator and the HAL answer to begin(): all succeed, new gives
\* nullptr, hal_dma_config or hal_adc_config fails
BeginResults == {"ok", "nomem", "dma", "adc"}

\* (variant with a slip: the pool is made for one channel)
begin_pool_one_channel(o, ns, n) == PoolNew(ns, 1, n)

\* new DMAPool<Sample>(n_samples, n_channels, n_buffers)
begin_pool(o, ns, n) == PoolNew(ns, Len(adc_pins[o]), n)

\* the body of begin(resolution, sample_rate, ns, n, st): resOk says whether
\* the resolution is one of ADC_RES_LUT, r and s what the allocator and the
\* HAL answer
begin_body(o, resOk, ns, n, st, r, s) ==
    /\ UNCHANGED <<adc_index, dual_mode, held, tick>>
    /\ IF begin_rejects(o, resOk)
       THEN /\ ret' = FALSE
            /\ UNCHANGED <<adc_pins, descr, pool, dmabuf, hw, hist>>
       ELSE IF begin_unit_owned(o)
       THEN /\ adc_pins' = [adc_pins EXCEPT ![o] = ClearAlt(@)]
            /\ descr' = [descr EXCEPT ![o] = adc_index[o]]
            /\ ret' = FALSE
            /\ UNCHANGED <<pool, dmabuf, hw, hist>>
       ELSE IF begin_first_alt(o) = {}
       THEN /\ adc_pins' = [adc_pins EXCEPT ![o] = ClearAlt(@)]
            /\ descr' = [descr EXCEPT ![o] = NULL]
            /\ ret' = FALSE
            /\ UNCHANGED <<pool, dmabuf, hw, hist>>
       ELSE LET a0   == MinOf(begin_first_alt(o))
                inst == Peripheral(adc_pins[o][1].name, a0)
                nch  == Len(adc_pins[o])
                p0   == begin_pool(o, ns, n)
                cfg  == [HistNone EXCEPT !.ns = ns, !.k = nch]
                p1   == Alloc(p0, DMA_BUFFER_WRITE)
                p2   == Alloc(p1, DMA_BUFFER_WRITE)
                db   == <<AllocBuf(p0, DMA_BUFFER_WRITE), AllocBuf(p1, DMA_BUFFER_WRITE)>>
                sr   == start_hw(hw[inst], db, s)
            IN  /\ adc_pins' = [adc_pins EXCEPT ![o] = begin_pins(o, inst, a0)]
                /\ descr' = [descr EXCEPT ![o] = inst]
                /\ IF begin_ch_init(o, inst) < nch \/ r = "nomem"
                   THEN /\ ret' = FALSE
                        /\ UNCHANGED <<pool, dmabuf, hw, hist>>
                   ELSE /\ pool' = [pool EXCEPT ![inst] = p2]
                        /\ dmabuf' = [dmabuf EXCEPT ![inst] = db]
                        /\ IF r # "ok"
                           THEN /\ ret' = FALSE
                                /\ hist' = [hist EXCEPT ![inst] = cfg]
                                /\ UNCHANGED hw
                           ELSE IF st
                           THEN /\ hw' = [hw EXCEPT ![inst] = sr.hw]
                                /\ ret' = sr.ok
                                /\ hist' = [hist EXCEPT ![inst] =
                                      [cfg EXCEPT !.owner = IF sr.ok THEN o ELSE "none"]]
                           ELSE /\ ret' = TRUE
                                /\ hist' = [hist EXCEPT ![inst] = [cfg EXCEPT !.owner = o]]
                                /\ UNCHANGED hw

\* begin() called by the application
begin(o, resOk, ns, n, st, r, s) ==
    /\ app.pc = "idle"
    /\ UNCHANGED app
    /\ begin_body(o, resOk, ns, n, st, r, s)

\* begin() asked for one sample per channel (n_samples has no part in the
\* control flow of begin)
Begin(o, resOk, n, st, r, s) == begin(o, resOk, 1, n, st, r, s)

\* Inputs worth telling apart: n_buffers and the HAL's answers are read only
\* by a begin() that gets as far as allocating the pool.
BeginAllocates(o) ==
    /\ ~begin_rejects(o, TRUE)
    /\ ~begin_unit_owned(o)
    /\ begin_first_alt(o) # {}
    /\ begin_ch_init(o, Peripheral(adc_pins[o][1].name, MinOf(begin_first_alt(o))))
          >= Len(adc_pins[o])
BeginCounts(o) == IF BeginAllocates(o) THEN BufCounts ELSE {MaxBuffers}
BeginStarts(o) == IF BeginAllocates(o) THEN StartResults ELSE {"ok"}

-----------------------------------------------------------------------------
(* AdvancedADC::start, stop, end, ~AdvancedADC *)

\* (variant with a slip: start() also refuses an engine that is converting)
start_rejects_running(o) ==
    descr[o] = NULL \/ ~HasPool(descr[o]) \/ Running(descr[o])

\* start() refuses an object without descriptor or pool
start_rejects(o) == descr[o] = NULL \/ ~HasPool(descr[o])

Start(o, s) ==
    /\ app.pc = "idle"
    /\ IF start_rejects(o)
       THEN /\ ret' = FALSE
            /\ UNCHANGED hw
       ELSE LET sr == start_hw(hw[descr[o]], dmabuf[descr[o]], s)
            IN  /\ hw' = [hw EXCEPT ![descr[o]] = sr.hw]
                /\ ret' = sr.ok
    /\ UNCHANGED <<adc_index, dual_mode, adc_pins, descr, pool, dmabuf, held, app, tick, hist>>

\* (variant with a slip: stop() refuses an engine that is not converting)
stop_rejects_stopped(o) == descr[o] = NULL \/ ~Running(descr[o])

\* stop() refuses an object without descriptor
stop_rejects(o) == descr[o] = NULL

Stop(o) ==
    /\ app.pc = "idle"
    /\ IF stop_rejects(o)
       THEN /\ ret' = FALSE
            /\ UNCHANGED hw
       ELSE /\ hw' = [hw EXCEPT ![descr[o]] = adc_descr_stop(@)]
            /\ ret' = TRUE
    /\ UNCHANGED <<adc_index, dual_mode, adc_pins, descr, pool, dmabuf, held, app, tick, hist>>

\* adc_descr_deinit: the pool once the armed buffers are released ...
deinit_released(p, db) ==
    LET q1 == IF db[1] # 0 THEN Free(p, db[1]) ELSE p
    IN  IF db[2] # 0 THEN Free(q1, db[2]) ELSE q1

\* (variant with a slip: the pool is not deleted)
adc_descr_deinit_keeps_pool(u) ==
    [hw     |-> adc_descr_stop(hw[u]),
     dmabuf |-> <<0, 0>>,
     pool   |-> IF HasPool(u) THEN deinit_released(pool[u], dmabuf[u]) ELSE pool[u]]

\* ... and the unit afterwards: stopped, no armed buffers, pool deleted
adc_descr_deinit(u) ==
    [hw     |-> adc_descr_stop(hw[u]),
     dmabuf |-> <<0, 0>>,
     pool   |-> IF HasPool(u) THEN NoPool ELSE pool[u]]

\* the effect of adc_descr_deinit(descr) on the unit the object points to;
\* buffers the application still holds die with the pool
Deinit(o) ==
    IF descr[o] = NULL
    THEN UNCHANGED <<pool, dmabuf, hw, held, hist>>
    ELSE LET u == descr[o]
             d == adc_descr_deinit(u)
         IN  /\ hw' = [hw EXCEPT ![u] = d.hw]
             /\ dmabuf' = [dmabuf EXCEPT ![u] = d.dmabuf]
             /\ pool' = [pool EXCEPT ![u] = d.pool]
             /\ held' = [held EXCEPT ![u] = {}]
             /\ hist' = [hist EXCEPT ![u] = HistNone]

\* (variant with a slip: end() keeps the descriptor pointer)
end_descr_kept(o) == descr[o]

\* the descriptor pointer of the object after end()
end_descr(o) == NULL

End(o) ==
    /\ app.pc = "idle"
    /\ Deinit(o)
    /\ descr' = [descr EXCEPT ![o] = end_descr(o)]
    /\ ret' = (descr[o] # NULL)
    /\ UNCHANGED <<adc_index, dual_mode, adc_pins, app, tick>>

\* ~AdvancedADC(), and an object constructed anew with the same arguments
Destroy(o) ==
    /\ app.pc = "idle"
    /\ Deinit(o)
    /\ descr' = [descr EXCEPT ![o] = NULL]
    /\ adc_pins' = [adc_pins EXCEPT ![o] = ClearAlt(@)]
    /\ ret' = TRUE
    /\ UNCHANGED <<adc_index, dual_mode, app, tick>>

-----------------------------------------------------------------------------
(* The program: two objects constructed for unit ADC1 (adc_index 0) or with  *)
(* automatic selection, on pins that reach ADC1 or fail to.                  *)

\* constructor arguments: the unit index and the pins
CtorA == {[idx |-> 0, pins |-> <<"PA_0", "PA_0C">>]}
CtorB == {[idx |-> 0, pins |-> <<"PA_0", "PC_2C">>],
          [idx |-> NULL, pins |-> <<"PA_0">>]}

PinsOf(c) == [i \in DOMAIN c.pins |-> Pin(c.pins[i], 0)]

Init ==
    /\ \E ca \in CtorA, cb \in CtorB :
        /\ adc_index = [o \in Objects |-> IF o = "a" THEN ca.idx ELSE cb.idx]
        /\ adc_pins = [o \in Objects |-> IF o = "a" THEN PinsOf(ca) ELSE PinsOf(cb)]
    /\ descr = [o \in Objects |-> NULL]
    /\ pool = [u \in Units |-> NoPool]
    /\ dmabuf = [u \in Units |-> <<0, 0>>]
    /\ hw = [u \in Units |-> HwOff]
    /\ held = [u \in Units |-> {}]
    /\ app = Idle
    /\ tick = 0
    /\ ret = TRUE
    /\ hist = [u \in Units |-> HistNone]
    /\ dual_mode = FALSE

Next ==
    \/ \E u \in Units : ISR(u)
    \/ \E o \in Objects : Available(o)
    \/ \E o \in Objects : Read(o)
    \/ \E o \in Objects : ReadNull(o)
    \/ \E u \in Units, b \in 1 .. MaxBuffers : Release(u, b)
    \/ \E o \in Objects : Clear(o)
    \/ FlushPop
    \/ FlushRelease
    \/ FlushDone
    \/ \E o \in Objects, st \in BOOLEAN :
          \E n \in BeginCounts(o), s \in (IF st THEN BeginStarts(o) ELSE {"ok"}) :
             Begin(o, TRUE, n, st, "ok", s)
    \/ \E o \in Objects, r \in BeginResults \ {"ok"} :
          \E n \in (IF r = "nomem" THEN {MaxBuffers} ELSE BeginCounts(o)) :
             Begin(o, TRUE, n, FALSE, r, "ok")
    \/ \E o \in Objects : Begin(o, FALSE, MaxBuffers, FALSE, "ok", "ok")
    \/ \E o \in Objects :
          \E s \in (IF start_rejects(o) THEN {"ok"} ELSE StartResults) : Start(o, s)
    \/ \E o \in Objects : Stop(o)
    \/ \E o \in Objects : End(o)
    \/ \E o \in Objects : Destroy(o)

Spec == Init /\ [][Next]_vars

-----------------------------------------------------------------------------
(* Properties *)

\* occurrences of b in queue q
Occ(q, b) == Cardinality({i \in DOMAIN q : q[i] = b})

\* buffers of unit u the application thread has in hand: those it read and
\* has not released, and the one flush() is moving
InFlush(u) == IF app.pc = "flush" /\ app.unit = u /\ app.buf # 0 THEN {app.buf} ELSE {}

\* the number of places that hold buffer b of unit u
Places(u, b) ==
    Occ(pool[u].wr, b) + Occ(pool[u].rd, b) + Occ(dmabuf[u], b)
      + (IF b \in held[u] THEN 1 ELSE 0) + (IF b \in InFlush(u) THEN 1 ELSE 0)

\* a step of the completion handler on unit u
IsrStep(u) == tick' = tick + 1 /\ hw'[u].ct # hw[u].ct

\* a step in which read() returns buffer b of unit u
ReadStep(u, b) ==
    /\ HasPool(u) /\ pool'[u].n # 0
    /\ b \notin held[u] /\ b \in held'[u]

\* C1: while a unit has a pool, every buffer of the pool is in exactly one
\* place: once in the free queue, once in the ready queue, in one armed slot,
\* or in the application's hands; never in two, never in none.
C1_ExclusiveOwnership ==
    \A u \in Units : HasPool(u) =>
        \A b \in 1 .. pool[u].n : Places(u, b) = 1

\* a buffer is held by the application while completions have been handled
C1_Witness ==
    \E u \in Units : HasPool(u) /\ held[u] # {} /\ hist[u].ovf /\ tick >= 3

\* C2 as stated: free + ready + the 2 armed buffers make N in every state of
\* a configured engine.
C2_Original ==
    \A u \in Units : HasPool(u) =>
        Len(pool[u].wr) + Len(pool[u].rd) + 2 = pool[u].n

\* C2 amended: free + ready + 2 armed + the buffers in the application's
\* hands make N, and both armed slots are filled.
C2_Conservation ==
    \A u \in Units : HasPool(u) =>
        /\ dmabuf[u][1] # 0 /\ dmabuf[u][2] # 0
        /\ Len(pool[u].wr) + Len(pool[u].rd) + 2
             + Cardinality(held[u] \cup InFlush(u)) = pool[u].n

\* the application holds a buffer it has read: free + ready + 2 is N - 1
C2_Witness ==
    \E u \in Units : HasPool(u) /\ Cardinality(held[u]) = 1 /\ tick >= 2
        /\ Len(pool[u].wr) + Len(pool[u].rd) + 2 = pool[u].n - 1

\* C3: a completion that finds the free queue empty publishes nothing: both
\* queues are as before, the buffers in the ready queue keep flags and
\* timestamp, the finished buffer stays in its slot with DISCONT set, and
\* the DMA target of that slot is that buffer.
C3_OverflowInPlace ==
    [][\A u \in Units :
         (IsrStep(u) /\ ~Writable(pool[u])) =>
            LET slot == (1 - hw'[u].ct) + 1
                fin  == dmabuf[u][slot]
            IN  /\ pool'[u].wr = pool[u].wr
                /\ pool'[u].rd = pool[u].rd
                /\ \A b \in Range(pool[u].rd) :
                      /\ pool'[u].flags[b] = pool[u].flags[b]
                      /\ pool'[u].ts[b] = pool[u].ts[b]
                /\ dmabuf'[u] = dmabuf[u]
                /\ DMA_BUFFER_DISCONT \in pool'[u].flags[fin]
                /\ hw'[u].m[slot] = fin]_vars

\* an overflow has happened with buffers waiting in the ready queue
C3_Witness ==
    \E u \in Units : HasPool(u) /\ hist[u].ovf /\ pool[u].rd # <<>>
        /\ \E i \in 1 .. 2 : DMA_BUFFER_DISCONT \in pool[u].flags[dmabuf[u][i]]

\* the ready queue is in completion order, and what the application has read
\* was completed before everything still queued
ReadyOrdered(u) ==
    /\ \A i, j \in DOMAIN pool[u].rd :
          i < j => pool[u].ts[pool[u].rd[i]] < pool[u].ts[pool[u].rd[j]]
    /\ \A b \in held[u], i \in DOMAIN pool[u].rd :
          pool[u].ts[b] < pool[u].ts[pool[u].rd[i]]

C5_NoDiscontWhenDrained ==
    \A u \in Units : (HasPool(u) /\ ~hist[u].ovf) =>
        \A b \in held[u] \cup Range(pool[u].rd) : DMA_BUFFER_DISCONT \notin pool[u].flags[b]

\* three completions without overflow, the application holding a buffer
C5_Witness ==
    \E u \in Units : HasPool(u) /\ ~hist[u].ovf /\ held[u] # {} /\ tick >= 3


\* the application has been away from unit u for more than N-2 completions
Stalled(u) == HasPool(u) /\ hist[u].stall >= pool[u].n - 1

\* C6 as stated: the buffer read next after a stall of more than N-2
\* completions carries DISCONT, and one buffer only is flagged per stall.
C6_Original ==
    /\ [][\A u \in Units : \A b \in 1 .. MaxBuffers :
            (Stalled(u) /\ ReadStep(u, b)) => DMA_BUFFER_DISCONT \in pool'[u].flags[b]]_vars
    /\ [](\A u \in Units : HasPool(u) => Cardinality(hist[u].epi) <= 1)

\* C6 amended: a stall of more than N-2 completions is recorded by DISCONT on
\* the armed buffers overwritten in place: on at least one and at most two
\* buffers per stall, which stay armed (they are not in the ready queue, so
\* the next buffer read need not carry the flag).
C6_StallFlagsArmed ==
    \A u \in Units : HasPool(u) =>
        /\ Stalled(u) => hist[u].epi # {}
        /\ Cardinality(hist[u].epi) <= 2
        /\ hist[u].epi \subseteq Range(dmabuf[u])
        /\ \A b \in hist[u].epi :
              /\ DMA_BUFFER_DISCONT \in pool[u].flags[b]
              /\ b \notin Range(pool[u].rd)

\* a stall has flagged both armed buffers while an unflagged one waits to be read
C6_Witness ==
    \E u \in Units :
        /\ Stalled(u) /\ Cardinality(hist[u].epi) = 2
        /\ pool[u].rd # <<>>
        /\ DMA_BUFFER_DISCONT \notin pool[u].flags[Head(pool[u].rd)]

C8_OnlyOwnerReleases ==
    [][\A u \in Units :
         (HasPool(u) /\ hist[u].owner # "none" /\ pool'[u].n = 0) =>
            (descr[hist[u].owner] = u /\ descr'[hist[u].owner] = NULL)]_vars

\* C9: a begin() that returns failure leaves no pool behind and arms no
\* buffer: a step that allocates a pool returns success.
C9_FailureRetainsNothing ==
    [][\A u \in Units :
         (~HasPool(u) /\ pool'[u].n # 0) => ret' = TRUE]_vars

\* C10: after end() the object has no descriptor and the unit no pool, no
\* armed buffer and no transfer; start() then fails and changes nothing;
\* begin() with any buffer count succeeds when the unit is free, the pins
\* route and the HAL calls succeed; start() then succeeds and arms the DMA
\* with the two buffers; a released buffer goes back to the free queue.
C10_Lifecycle ==
    [][/\ \A o \in Objects :
            /\ (descr[o] # NULL /\ descr'[o] = NULL /\ End(o)) =>
                  /\ ret' /\ descr'[o] = NULL
                  /\ pool'[descr[o]].n = 0 /\ dmabuf'[descr[o]] = <<0, 0>>
                  /\ ~hw'[descr[o]].en /\ ~hw'[descr[o]].tim
            /\ (descr[o] = NULL /\ descr' = descr /\ Start(o, "ok")) => (~ret' /\ hw' = hw)
            /\ \A n \in BufCounts :
                 (descr[o] = NULL /\ descr'[o] # NULL /\ BeginAllocates(o)
                     /\ Begin(o, TRUE, n, FALSE, "ok", "ok")) =>
                    /\ ret' /\ descr'[o] # NULL
                    /\ pool'[descr'[o]].n = n
                    /\ Len(pool'[descr'[o]].wr) = n - 2 /\ pool'[descr'[o]].rd = <<>>
            /\ (~start_rejects(o) /\ hw' # hw /\ tick' = tick /\ Start(o, "ok")) =>
                  /\ ret' /\ hw'[descr[o]].en /\ hw'[descr[o]].tim
                  /\ hw'[descr[o]].m = dmabuf[descr[o]]
       /\ \A u \in Units : \A b \in 1 .. MaxBuffers :
            (HasPool(u) /\ b \in held[u] /\ held'[u] # held[u] /\ Release(u, b)) =>
                  (pool'[u].wr = Append(pool[u].wr, b) /\ pool'[u].flags[b] = {})]_vars

\* every completion leaves a buffer for the application: in the ready queue,
\* or in its hands already
AvailableAfterCompletion(u) ==
    IsrStep(u) => (Readable(pool'[u]) \/ held[u] # {} \/ InFlush(u) # {})

Configured(o) == descr[o] # NULL /\ HasPool(descr[o])

\* the pool, the armed buffers and the application's buffers are as before
PoolKept == pool' = pool /\ dmabuf' = dmabuf /\ held' = held

\* start() and stop() on a configured engine, the HAL calls succeeding, return
\* success from any configured state and keep the pool's buffers where they
\* are; start() leaves the engine converting into the two armed buffers,
\* stop() leaves it halted.
StartStopCycle ==
    \A o \in Objects : Configured(o) =>
        /\ (tick' = tick /\ Start(o, "ok")) =>
              /\ ret' /\ PoolKept
              /\ hw'[descr[o]].en /\ hw'[descr[o]].tim
              /\ hw'[descr[o]].ct = 0 /\ hw'[descr[o]].m = dmabuf[descr[o]]
        /\ (tick' = tick /\ Stop(o)) =>
              /\ ret' /\ PoolKept
              /\ ~hw'[descr[o]].en /\ ~hw'[descr[o]].tim

OnlyRet == UNCHANGED <<adc_index, dual_mode, adc_pins, descr, pool, dmabuf, hw, held, app, tick, hist>>

\* C13: end() on a configured engine, converting or not, returns success and
\* leaves the object without descriptor and the unit halted, without armed
\* buffers and without pool; on an object without descriptor start(), stop()
\* and end() return failure, available() returns false and clear() does
\* nothing, and none of them changes anything.
C13_EndThenFail ==
    [][\A o \in Objects :
         /\ (Configured(o) /\ pool'[descr[o]].n = 0 /\ End(o)) =>
               /\ ret' /\ descr'[o] = NULL
               /\ dmabuf'[descr[o]] = <<0, 0>>
               /\ ~hw'[descr[o]].en /\ ~hw'[descr[o]].tim
         /\ (descr[o] = NULL /\ descr'[o] = NULL /\ tick' = tick) =>
               /\ Start(o, "ok") => (~ret' /\ OnlyRet)
               /\ Stop(o) => (~ret' /\ OnlyRet)
               /\ End(o) => (~ret' /\ OnlyRet)
               /\ Available(o) => (~ret' /\ OnlyRet)
               /\ Clear(o) => OnlyRet]_vars

\* after completions on its unit the object has ended: it has no descriptor,
\* no unit has a pool, and the last call returned failure
C13_Witness ==
    /\ tick >= 1 /\ descr["a"] = NULL /\ descr["b"] = NULL
    /\ \A u \in Units : ~HasPool(u) /\ ~Running(u) /\ dmabuf[u] = <<0, 0>>
    /\ ret = FALSE

\* C14 as stated: start() returns success only on a configured engine that
\* is not converting; on any other it returns failure and changes nothing.
C14_Original ==
    [][\A o \in Objects : \A s \in StartResults :
         (tick' = tick /\ descr' = descr /\ Start(o, s)) =>
            IF Configured(o) /\ ~Running(descr[o])
            THEN TRUE
            ELSE ~ret' /\ OnlyRet]_vars

\* C14 amended: start() returns failure and changes nothing when the object
\* has no descriptor or its unit no pool; on a unit with a pool it succeeds
\* (the HAL calls succeeding) whether the unit is halted or converting: a
\* converting unit is stopped and restarted on the first armed buffer, the
\* pool, the queues and the armed buffers staying as they were.
C14_StartRestarts ==
    [][\A o \in Objects : \A s \in StartResults :
         (tick' = tick /\ descr' = descr /\ Start(o, s)) =>
            IF Configured(o)
            THEN /\ PoolKept
                 /\ s = "ok" =>
                      /\ ret' /\ Running(descr[o])'
                      /\ hw'[descr[o]].ct = 0 /\ hw'[descr[o]].m = dmabuf[descr[o]]
            ELSE ~ret' /\ OnlyRet]_vars

\* an engine that has had one completion converts again from the first
\* armed buffer: start() was called after the completion
C14_Witness ==
    \E u \in Units :
        /\ HasPool(u) /\ pool[u].n = 3 /\ ~hist[u].ovf
        /\ Cardinality(Stamped(pool[u])) = 1 /\ Readable(pool[u])
        /\ Running(u) /\ hw[u].ct = 0 /\ ret = TRUE

\* C15: begin() on a configured engine that is not converting succeeds and
\* installs the new configuration.
C15_ReconfigureAfterStop ==
    [][\A o \in Objects : \A n \in BufCounts :
         (Configured(o) /\ ~Running(descr[o]) /\ tick' = tick /\ pool' = pool
             /\ Begin(o, TRUE, n, FALSE, "ok", "ok")) =>
            (ret' /\ pool'[descr'[o]].n = n /\ pool'[descr'[o]].rd = <<>>)]_vars


\* C16: when clear() returns the ready queue is empty, and available() on an
\* empty ready queue returns false; if no completion was handled during the
\* clear(), every buffer that was in the ready queue is in the free queue
\* with its flags cleared and the armed buffers are the same; each buffer of
\* the pool is still in exactly one place; clear() on an object without
\* descriptor or pool changes nothing.
C16_ClearEmptiesReady ==
    /\ [][/\ (app.pc = "flush" /\ app'.pc = "idle") =>
               /\ pool'[app.unit].rd = <<>>
               /\ tick = app.t0 =>
                    /\ \A b \in Range(app.rd0) :
                          /\ b \in Range(pool'[app.unit].wr)
                          /\ pool'[app.unit].flags[b] = {}
                    /\ dmabuf'[app.unit] = app.db0
          /\ \A o \in Objects :
               /\ (Configured(o) /\ ~Readable(pool[descr[o]]) /\ Available(o)) => ~ret'
               /\ (~Configured(o) /\ tick' = tick /\ descr' = descr /\ Clear(o)) => OnlyRet]_vars
    /\ [](\A u \in Units : (HasPool(u) /\ app.pc = "flush" /\ app.unit = u) =>
             \A b \in 1 .. pool[u].n : Places(u, b) = 1)

\* clear() has moved the ready buffers and finds the ready queue empty, no
\* completion having been handled since the call
C16_Witness ==
    /\ app.pc = "flush" /\ app.buf = 0 /\ tick = app.t0
    /\ Len(app.rd0) >= 1
    /\ pool[app.unit].rd = <<>>
    /\ Range(app.rd0) \subseteq Range(pool[app.unit].wr)


\* C17: a buffer that read() returns carries INTRLVD exactly if the engine
\* has more than one channel.
C17_InterleavedOnRead ==
    [][\A u \in Units : \A b \in 1 .. MaxBuffers :
         ReadStep(u, b) =>
            (DMA_BUFFER_INTRLVD \in pool'[u].flags[b] <=> pool[u].nch > 1)]_vars

-----------------------------------------------------------------------------
(* One engine, its HAL calls succeeding or failing, and the hardware that   *)
(* keeps completing transfers while the engine converts.                    *)

NextLive ==
    \/ \E u \in Units : ISR(u)
    \/ Available("a")
    \/ Read("a")
    \/ \E u \in Units, b \in 1 .. MaxBuffers : Release(u, b)
    \/ Clear("a")
    \/ FlushPop
    \/ FlushRelease
    \/ FlushDone
    \/ \E st \in BOOLEAN : \E n \in BeginCounts("a") : Begin("a", TRUE, n, st, "ok", "ok")
    \/ \E s \in (IF start_rejects("a") THEN {"ok"} ELSE StartResults) : Start("a", s)
    \/ Stop("a")
    \/ End("a")

\* while a unit converts, the timer keeps triggering conversions and the DMA
\* keeps completing transfers: the interrupt is taken
SpecLive == Init /\ [][NextLive]_vars /\ WF_vars(\E u \in Units : ISR(u))

\* the engine of unit u converts into a pool of at least 3 buffers, none of
\* them in the application's hands
Converting(u) ==
    /\ HasPool(u) /\ pool[u].n >= 3 /\ Running(u)
    /\ held[u] = {} /\ app.pc = "idle"
    /\ tick < MaxTick

\* a buffer of unit u waits in the ready queue
Ready(u) == IF HasPool(u) THEN Readable(pool[u]) ELSE FALSE

\* C18: with at least 3 buffers, while the engine keeps converting (it is
\* neither stopped nor torn down), a buffer becomes available: available()
\* is true and read(), which waits for just that, returns a buffer of the pool.
C18_EventuallyAvailable ==
    /\ \A u \in Units :
         Converting(u) ~> (Ready(u) \/ ~Running(u) \/ ~HasPool(u))
    /\ [](\A u \in Units : Ready(u) => read_buf(pool[u]) \in 1 .. pool[u].n)

\* the engine was converting into an empty ready queue and a buffer has
\* become available
C18_Witness ==
    \E u \in Units :
        /\ HasPool(u) /\ pool[u].n >= 3 /\ Running(u)
        /\ Len(pool[u].rd) = 1 /\ pool[u].ts[Head(pool[u].rd)] = tick
        /\ held[u] = {} /\ available("a")


-----------------------------------------------------------------------------
(* Buffer geometry and sample layout: one engine of 1 to 3 channels on       *)
(* ADC1, configured with 1 .. MaxSamples samples per channel, its HAL calls  *)
(* succeeding; the application reads the buffers and collects the samples    *)
(* per channel as the examples do.                                           *)

CtorGeom == {[idx |-> 0, pins |-> <<"PA_0">>],
             [idx |-> 0, pins |-> <<"PA_0", "PA_0C">>],
             [idx |-> 0, pins |-> <<"PA_0", "PA_0C", "PC_0">>]}

InitGeom ==
    /\ \E ca \in CtorGeom :
        /\ adc_index = [o \in Objects |-> IF o = "a" THEN ca.idx ELSE NULL]
        /\ adc_pins = [o \in Objects |-> IF o = "a" THEN PinsOf(ca) ELSE <<Pin("PA_0", 0)>>]
    /\ descr = [o \in Objects |-> NULL]
    /\ pool = [u \in Units |-> NoPool]
    /\ dmabuf = [u \in Units |-> <<0, 0>>]
    /\ hw = [u \in Units |-> HwOff]
    /\ held = [u \in Units |-> {}]
    /\ app = Idle
    /\ tick = 0
    /\ ret = TRUE
    /\ hist = [u \in Units |-> HistNone]
    /\ dual_mode = FALSE

NextGeom ==
    \/ \E u \in Units : ISR(u)
    \/ Read("a")
    \/ \E u \in Units, b \in 1 .. MaxBuffers : Release(u, b)
    \/ \E ns \in 1 .. MaxSamples, n \in BeginCounts("a"), st \in BOOLEAN :
          begin("a", TRUE, ns, n, st, "ok", "ok")
    \/ Start("a", "ok")
    \/ Stop("a")
    \/ End("a")

SpecGeom == InitGeom /\ [][NextGeom]_vars

\* (variant with a slip: the buffer is read as if it held the channels one
\* after the other)
collectSamples_planar(p, b, num_channels) ==
    LET buffer_size == size(p, b)
        per_channel == buffer_size \div num_channels
    IN  [channel \in 0 .. (num_channels - 1) |->
            [sample \in 0 .. (per_channel - 1) |->
                LET index == channel * per_channel + sample
                IN  IF index < buffer_size THEN p.data[b][index + 1] ELSE [ch |-> -1, i |-> -1]]]

\* collectSamples of the examples on buffer b of pool p: for each channel the
\* samples it stores, in the order it stores them
collectSamples(p, b, num_channels) ==
    LET buffer_size == size(p, b)
    IN  [channel \in 0 .. (num_channels - 1) |->
            [sample \in 0 .. ((buffer_size \div num_channels) - 1) |->
                LET index == sample * num_channels + channel
                IN  IF index < buffer_size THEN p.data[b][index + 1] ELSE [ch |-> -1, i |-> -1]]]

\* the buffers of unit u that have been published: ready or read
Published(u) == Range(pool[u].rd) \cup held[u]

\* C19: every buffer of the pool, for as long as the pool exists, has
\* channels() equal to the number of channels the engine was configured with
\* and size() equal to samples per channel times channels, and so has every
\* buffer read() returns, which holds as many samples as size() says.
C19_BufferGeometry ==
    /\ [](\A u \in Units : HasPool(u) =>
            \A b \in 1 .. pool[u].n :
               /\ channels(pool[u], b) = hist[u].k
               /\ size(pool[u], b) = hist[u].ns * hist[u].k
               /\ hist[u].k = Len(adc_pins["a"]))
    /\ [][\A u \in Units : \A b \in 1 .. MaxBuffers :
            ReadStep(u, b) =>
               /\ channels(pool'[u], b) = Len(adc_pins["a"])
               /\ size(pool'[u], b) = hist[u].ns * Len(adc_pins["a"])
               /\ Len(pool'[u].data[b]) = size(pool'[u], b)]_vars

\* read() has returned a buffer of 3 channels and MaxSamples samples each
C19_Witness ==
    \E u \in Units : \E b \in held[u] :
        /\ channels(pool[u], b) = 3
        /\ size(pool[u], b) = 3 * MaxSamples

-----------------------------------------------------------------------------
(* Automatic selection of the unit: two objects constructed without a unit   *)
(* index, on pins that reach one, two or three units; the HAL calls succeed. *)

CtorSelA == {[idx |-> NULL, pins |-> <<"PA_0">>],
             [idx |-> NULL, pins |-> <<"PA_0C", "PC_0">>]}
CtorSelB == {[idx |-> NULL, pins |-> <<"PA_0">>],
             [idx |-> NULL, pins |-> <<"PA_0C">>],
             [idx |-> NULL, pins |-> <<"PA_0C", "PC_0">>],
             [idx |-> NULL, pins |-> <<"PC_0", "PC_2C">>],
             [idx |-> NULL, pins |-> <<"PA_0", "PC_2C">>]}

InitSel ==
    /\ \E ca \in CtorSelA, cb \in CtorSelB :
        /\ adc_index = [o \in Objects |-> IF o = "a" THEN ca.idx ELSE cb.idx]
        /\ adc_pins = [o \in Objects |-> IF o = "a" THEN PinsOf(ca) ELSE PinsOf(cb)]
    /\ descr = [o \in Objects |-> NULL]
    /\ pool = [u \in Units |-> NoPool]
    /\ dmabuf = [u \in Units |-> <<0, 0>>]
    /\ hw = [u \in Units |-> HwOff]
    /\ held = [u \in Units |-> {}]
    /\ app = Idle
    /\ tick = 0
    /\ ret = TRUE
    /\ hist = [u \in Units |-> HistNone]
    /\ dual_mode = FALSE

NextSel ==
    \/ \E u \in Units : ISR(u)
    \/ \E o \in Objects, st \in BOOLEAN :
          \E n \in BeginCounts(o) : Begin(o, TRUE, n, st, "ok", "ok")
    \/ \E o \in Objects : End(o)

SpecSel == InitSel /\ [][NextSel]_vars

\* the units a pin reaches by any of its alternate functions
Reach(name) == {PinMap_ADC[name][i] : i \in DOMAIN PinMap_ADC[name]}

\* the units every pin of object o reaches
ReachAll(o) == {u \in Units : \A i \in DOMAIN adc_pins[o] : u \in Reach(adc_pins[o][i].name)}

\* the units without pool that every pin of object o reaches
FreeForAll(o) == {u \in ReachAll(o) : ~HasPool(u)}

\* the first unit without pool in the order of the first pin's alternate
\* functions (a set: empty if every unit the first pin reaches has a pool)
FirstFree(o) ==
    LET m  == PinMap_ADC[adc_pins[o][1].name]
        fs == {i \in DOMAIN m : ~HasPool(m[i])}
    IN  IF fs = {} THEN {} ELSE {m[MinOf(fs)]}

\* a step of begin(), its HAL calls succeeding, on an object without unit
\* index whose engine is not configured
AutoBegin(o, n, st) ==
    /\ adc_index[o] = NULL /\ ~Configured(o)
    /\ tick' = tick /\ app' = app /\ held' = held
    /\ Begin(o, TRUE, n, st, "ok", "ok")

\* the pools of the units other than u are as before
OthersKept(u) == \A v \in Units \ {u} : pool'[v] = pool[v]

\* C21 as stated: automatic selection binds to the first free unit that
\* every requested channel reaches, and fails, no unit becoming owned, only
\* if no free unit reaches every requested channel.
C21_Original ==
    [][\A o \in Objects, n \in BufCounts, st \in BOOLEAN :
         AutoBegin(o, n, st) =>
            IF FreeForAll(o) = {}
            THEN ~ret' /\ pool' = pool
            ELSE /\ ret' /\ descr'[o] = MinOf(FreeForAll(o))
                 /\ pool'[descr'[o]].n = n]_vars

\* C21 amended: automatic selection takes the first free unit in the order
\* of the first channel's routings; it binds to it if every other channel
\* reaches that unit too, and otherwise fails without trying a further unit
\* (even if a free unit reaches every channel); it fails as well if no free
\* unit reaches the first channel.  Whenever it fails no unit becomes owned.
C21_FirstPinDecides ==
    [][\A o \in Objects, n \in BufCounts, st \in BOOLEAN :
         AutoBegin(o, n, st) =>
            IF FirstFree(o) = {}
            THEN ~ret' /\ descr'[o] = NULL /\ pool' = pool
            ELSE LET u == MinOf(FirstFree(o)) IN
                 IF u \in ReachAll(o)
                 THEN /\ ret' /\ descr'[o] = u
                      /\ pool'[u].n = n /\ OthersKept(u)
                 ELSE ~ret' /\ pool' = pool]_vars

\* begin() without unit index has failed on the unit the first pin chose
\* although a free unit reaches every pin of the object
C21_Witness ==
    \E o \in Objects :
        /\ adc_index[o] = NULL /\ ret = FALSE
        /\ descr[o] # NULL /\ ~HasPool(descr[o])
        /\ \E u \in FreeForAll(o) : u # descr[o]

\* C22: the pins of an object that owns a unit through a successful begin()
\* are all routed to that unit, each by an alternate function the pin map
\* has for it; and begin() on pins that no single unit reaches fails without
\* creating a pool.
C22_AllChannelsOnBoundUnit ==
    /\ [](\A u \in Units, o \in Objects :
            (hist[u].owner = o /\ descr[o] = u) =>
               \A i \in DOMAIN adc_pins[o] :
                  /\ Mapped(adc_pins[o][i].name, adc_pins[o][i].alt)
                  /\ Peripheral(adc_pins[o][i].name, adc_pins[o][i].alt) = u)
    /\ [][\A o \in Objects, n \in BufCounts, st \in BOOLEAN :
            (ReachAll(o) = {} /\ AutoBegin(o, n, st)) => (~ret' /\ pool' = pool)]_vars

\* an object of two channels owns ADC2, both pins routed by their ALT0
C22_Witness ==
    \E o \in Objects :
        /\ hist[1].owner = o /\ descr[o] = 1 /\ Len(adc_pins[o]) = 2
        /\ \A i \in 1 .. 2 : adc_pins[o][i].alt = 1

\* C23: automatic selection binds, if it binds, to the first unit among
\* those the first channel reaches that has no pool, leaving the owned units
\* alone; a request of one channel binds whenever such a unit exists; if
\* every unit the first channel reaches has a pool, begin() fails and the
\* object has no descriptor.
C23_FirstFreeOfFirstChannel ==
    [][\A o \in Objects, n \in BufCounts, st \in BOOLEAN :
         AutoBegin(o, n, st) =>
            IF FirstFree(o) = {}
            THEN ~ret' /\ descr'[o] = NULL /\ pool' = pool
            ELSE LET u == MinOf(FirstFree(o)) IN
                 /\ ret' => (descr'[o] = u /\ OthersKept(u))
                 /\ Len(adc_pins[o]) = 1 => ret'
                 /\ \A v \in Units : HasPool(v) => pool'[v] = pool[v]]_vars

\* ADC1 being owned by one object, the other, whose first pin reaches ADC1
\* and ADC2, owns ADC2
C23_Witness ==
    /\ hist[0].owner = "a" /\ hist[1].owner = "b"
    /\ adc_index["b"] = NULL
    /\ adc_pins["b"][1] = Pin("PA_0C", 1)


-----------------------------------------------------------------------------
(* AdvancedADCDual: begin, stop, end on the two objects adc1 and adc2.       *)
(* begin() calls adc1.begin(), adc2.begin() and adc1.start() one after the   *)
(* other; the interrupt can be taken between two of the calls.               *)

\* AdvancedADCDual(adc1_in, adc2_in)
adc1 == "a"
adc2 == "b"

\* AdvancedADC::id()
id(o) == IF descr[o] # NULL THEN descr[o] + 1 ELSE -1

\* AdvancedADC::channels()
adc_channels(o) == Len(adc_pins[o])

\* (variant with a slip: the channel counts are not compared)
dual_counts_unchecked == FALSE

\* begin(): adc1.channels() != adc2.channels()
dual_counts_differ == adc_channels(adc1) # adc_channels(adc2)

\* begin(): adc1.id() != 1 || adc2.id() != 2
dual_ids_wrong == id(adc1) # 1 \/ id(adc2) # 2

\* the DMA streams and timers after o.stop() for each object o of the set os
stop_units(os) ==
    [u \in Units |->
        IF \E o \in os : ~stop_rejects(o) /\ descr[o] = u
        THEN adc_descr_stop(hw[u]) ELSE hw[u]]

\* begin(), to the return of adc1.begin(..., false, ...)
DualBegin(n, r) ==
    /\ app.pc = "idle"
    /\ IF dual_counts_differ
       THEN /\ ret' = FALSE
            /\ UNCHANGED <<adc_index, dual_mode, adc_pins, descr, pool, dmabuf, hw, held,
                           app, tick, hist>>
       ELSE /\ begin_body(adc1, TRUE, 1, n, FALSE, r, "ok")
            /\ app' = IF ret' THEN [Idle EXCEPT !.pc = "dual_adc2"] ELSE Idle

\* begin(): adc2.begin(..., false, ...) with the arguments adc1.begin() got
DualBeginSecond(r) ==
    /\ app.pc = "dual_adc2"
    /\ LET p == pool[descr[adc1]]
       IN  begin_body(adc2, TRUE, p.ns, p.n, FALSE, r, "ok")
    /\ app' = [app EXCEPT !.pc = "dual_check"]

\* begin(), from the return of adc2.begin() to its own return; s is what the
\* HAL answers to adc1.start()
DualBeginCheck(s) ==
    /\ app.pc = "dual_check"
    /\ app' = Idle
    /\ IF ~ret
       THEN /\ hw' = stop_units({adc1})
            /\ ret' = FALSE
            /\ UNCHANGED dual_mode
       ELSE IF dual_ids_wrong
       THEN /\ hw' = stop_units({adc1, adc2})
            /\ ret' = FALSE
            /\ UNCHANGED dual_mode
       ELSE /\ dual_mode' = hal_adc_enable_dual_mode(TRUE)
            /\ IF start_rejects(adc1)
               THEN /\ ret' = FALSE
                    /\ UNCHANGED hw
               ELSE LET sr == start_hw(hw[descr[adc1]], dmabuf[descr[adc1]], s)
                    IN  /\ hw' = [hw EXCEPT ![descr[adc1]] = sr.hw]
                        /\ ret' = sr.ok
    /\ UNCHANGED <<adc_index, adc_pins, descr, pool, dmabuf, held, tick, hist>>

\* (variant with a slip: stop() leaves the multimode setting as it is)
dual_stop_mode_kept == dual_mode

\* stop(): hal_adc_enable_dual_mode(false)
dual_stop_mode == hal_adc_enable_dual_mode(FALSE)

\* AdvancedADCDual::stop
DualStop ==
    /\ app.pc = "idle"
    /\ hw' = stop_units({adc1, adc2})
    /\ dual_mode' = dual_stop_mode
    /\ ret' = TRUE
    /\ UNCHANGED <<adc_index, adc_pins, descr, pool, dmabuf, held, app, tick, hist>>

\* the units adc1 and adc2 point to
DualUnits == {descr[adc1], descr[adc2]} \ {NULL}

\* AdvancedADCDual::end: stop(), adc1.end(), adc2.end()
DualEnd ==
    /\ app.pc = "idle"
    /\ hw' = [u \in Units |-> IF u \in DualUnits THEN adc_descr_deinit(u).hw ELSE hw[u]]
    /\ dmabuf' = [u \in Units |-> IF u \in DualUnits THEN adc_descr_deinit(u).dmabuf ELSE dmabuf[u]]
    /\ pool' = [u \in Units |-> IF u \in DualUnits THEN adc_descr_deinit(u).pool ELSE pool[u]]
    /\ held' = [u \in Units |-> IF u \in DualUnits THEN {} ELSE held[u]]
    /\ hist' = [u \in Units |-> IF u \in DualUnits THEN HistNone ELSE hist[u]]
    /\ descr' = [o \in Objects |-> IF o \in {adc1, adc2} THEN end_descr(o) ELSE descr[o]]
    /\ dual_mode' = dual_stop_mode
    /\ ret' = TRUE
    /\ UNCHANGED <<adc_index, adc_pins, app, tick>>

\* constructor arguments of adc1 and adc2: a pair for ADC1 and ADC2 of one
\* channel each, one of two channels each, a pair with different channel
\* counts, a pair that lands on ADC2 and ADC3, and a pair whose second
\* object finds its only unit owned
CtorDual ==
    {<<[idx |-> NULL, pins |-> <<"PA_0">>], [idx |-> NULL, pins |-> <<"PA_0C">>]>>,
     <<[idx |-> NULL, pins |-> <<"PA_0", "PA_0C">>], [idx |-> NULL, pins |-> <<"PA_0C", "PC_0">>]>>,
     <<[idx |-> NULL, pins |-> <<"PA_0", "PA_0C", "PC_0">>], [idx |-> NULL, pins |-> <<"PA_0C", "PC_0">>]>>,
     <<[idx |-> 1, pins |-> <<"PA_0C">>], [idx |-> NULL, pins |-> <<"PC_2C">>]>>,
     <<[idx |-> NULL, pins |-> <<"PA_0">>], [idx |-> NULL, pins |-> <<"PA_0">>]>>}

InitDual ==
    /\ \E c \in CtorDual :
        /\ adc_index = [o \in Objects |-> IF o = adc1 THEN c[1].idx ELSE c[2].idx]
        /\ adc_pins = [o \in Objects |-> IF o = adc1 THEN PinsOf(c[1]) ELSE PinsOf(c[2])]
    /\ descr = [o \in Objects |-> NULL]
    /\ pool = [u \in Units |-> NoPool]
    /\ dmabuf = [u \in Units |-> <<0, 0>>]
    /\ hw = [u \in Units |-> HwOff]
    /\ held = [u \in Units |-> {}]
    /\ app = Idle
    /\ tick = 0
    /\ ret = TRUE
    /\ hist = [u \in Units |-> HistNone]
    /\ dual_mode = FALSE

\* the application uses the two objects through the AdvancedADCDual object
\* and reads their buffers
NextDual ==
    \/ \E u \in Units : ISR(u)
    \/ \E o \in Objects : Read(o)
    \/ \E u \in Units, b \in 1 .. MaxBuffers : Release(u, b)
    \/ \E n \in BufCounts, r \in {"ok", "nomem"} : DualBegin(n, r)
    \/ \E r \in {"ok", "nomem"} : DualBeginSecond(r)
    \/ \E s \in StartResults : DualBeginCheck(s)
    \/ DualStop
    \/ DualEnd

SpecDual == InitDual /\ [][NextDual]_vars

\* the same, the engines converting on after the observed window
NextDualLive ==
    \/ \E u \in Units : ISR(u)
    \/ \E u \in Units : ISRLate(u)
    \/ \E o \in Objects : Read(o)
    \/ \E u \in Units, b \in 1 .. MaxBuffers : Release(u, b)
    \/ \E n \in BufCounts, r \in {"ok", "nomem"} : DualBegin(n, r)
    \/ \E r \in {"ok", "nomem"} : DualBeginSecond(r)
    \/ \E s \in StartResults : DualBeginCheck(s)
    \/ DualStop
    \/ DualEnd

\* while the coupled pair converts, the interrupt of each converting unit is
\* taken
SpecDualLive ==
    InitDual /\ [][NextDualLive]_vars
      /\ \A u \in Units : WF_vars(ISR(u) \/ ISRLate(u))

\* the two objects were constructed with different numbers of pins
CountsDiffer == Len(adc_pins[adc1]) # Len(adc_pins[adc2])

\* C24: the synchronizer's begin() on two objects whose channel counts
\* differ returns failure and changes nothing: neither object gets a
\* descriptor, no unit gets a pool, nothing is started and dual mode stays
\* off.
C24_MismatchRejected ==
    /\ [](CountsDiffer =>
            /\ \A o \in Objects : descr[o] = NULL
            /\ \A u \in Units : ~HasPool(u) /\ ~hw[u].en /\ ~hw[u].tim /\ dmabuf[u] = <<0, 0>>
            /\ ~dual_mode /\ app.pc = "idle")
    /\ [][\A n \in BufCounts :
            (CountsDiffer /\ DualBegin(n, "ok")) => (~ret' /\ OnlyRet)]_vars

\* begin() of the synchronizer has been refused for a pair of 3 and 2 channels
C24_Witness ==
    /\ Len(adc_pins[adc1]) = 3 /\ Len(adc_pins[adc2]) = 2
    /\ ret = FALSE
    /\ \A u \in Units : ~HasPool(u)
    /\ ~dual_mode

\* C25: when the synchronizer's begin() returns failure because adc2.begin()
\* failed or because the two objects are not on ADC1 and ADC2, no unit the
\* two objects point to keeps a pool, and dual mode is off.
C25_FailureTearsDown ==
    [][(app.pc = "dual_check" /\ app'.pc = "idle" /\ (~ret \/ dual_ids_wrong)) =>
          /\ ~ret'
          /\ ~dual_mode'
          /\ \A o \in {adc1, adc2} : descr[o] # NULL => pool'[descr[o]].n = 0]_vars

\* the coupled pair converts: dual mode is on, the master converts, both
\* pools have at least 3 buffers and the application holds none of them
DualOn ==
    /\ dual_mode /\ Running(0)
    /\ HasPool(0) /\ HasPool(1)
    /\ pool[0].n >= 3 /\ pool[1].n >= 3
    /\ held[0] = {} /\ held[1] = {} /\ app.pc = "idle"

\* C26: begin() of the synchronizer on objects of equal channel counts that
\* land on ADC1 and ADC2 returns success (the HAL calls succeeding) with
\* dual mode on and only the master started by software; and while the pair
\* stays coupled and converting, a buffer becomes readable on each of the
\* two units.
C26_BothUnitsDeliver ==
    /\ [][(app.pc = "dual_check" /\ ret /\ ~dual_ids_wrong /\ DualBeginCheck("ok")) =>
             /\ ret' /\ dual_mode'
             /\ Running(0)'
             /\ hw'[1] = hw[1]]_vars
    /\ \A u \in {0, 1} :
          DualOn ~> (Ready(u) \/ ~dual_mode \/ ~Running(0) \/ ~HasPool(u))

-----------------------------------------------------------------------------
(* Restart, failed configuration, second configuration                      *)

\* the application calls stop() and then start() on a configured engine (no
\* transfer completes in between: the engine is halted); s is what the HAL
\* answers to start()
StopStart(o, s) ==
    /\ app.pc = "idle"
    /\ ~start_rejects(o)
    /\ LET u  == descr[o]
           sr == start_hw(adc_descr_stop(hw[u]), dmabuf[u], s)
       IN  /\ hw' = [hw EXCEPT ![u] = sr.hw]
           /\ ret' = sr.ok
           /\ hist' = [hist EXCEPT ![u] = Restarted(@, pool[u], dmabuf[u], sr.ok)]
    /\ UNCHANGED <<adc_index, dual_mode, adc_pins, descr, pool, dmabuf, held, app, tick>>

\* one engine that is configured, read, stopped and restarted, and ended
NextRestart ==
    \/ \E u \in Units : ISR(u)
    \/ Read("a")
    \/ \E u \in Units, b \in 1 .. MaxBuffers : Release(u, b)
    \/ \E n \in BeginCounts("a"), st \in BOOLEAN : Begin("a", TRUE, n, st, "ok", "ok")
    \/ \E s \in StartResults : StopStart("a", s)
    \/ End("a")

SpecRestart == InitGeom /\ [][NextRestart]_vars

\* C28: a buffer the application reads that was the first to complete after
\* capture that had delivered was stopped with stop() and started again with
\* start() carries DISCONT.
C28_DiscontAfterRestart ==
    \A u \in Units : HasPool(u) =>
        \A b \in held[u] \cap hist[u].gap : DMA_BUFFER_DISCONT \in pool[u].flags[b]

\* available() on an object whose descriptor has no pool:
\* descr->pool->readable() goes through a null pointer.  The call returns
\* whatever the read finds, or the read faults and the application stops.
AvailableNoPool(o) ==
    /\ app.pc = "idle"
    /\ descr[o] # NULL /\ ~HasPool(descr[o])
    /\ \/ ret' \in BOOLEAN /\ UNCHANGED app
       \/ app' = [Idle EXCEPT !.pc = "fault"] /\ UNCHANGED ret
    /\ UNCHANGED <<adc_index, dual_mode, adc_pins, descr, pool, dmabuf, hw, held, tick, hist>>

\* two objects, the HAL calls succeeding: begin() fails where the unit is
\* owned or a pin does not reach it, and the application goes on calling
\* the failed object
NextMisuse ==
    \/ \E u \in Units : ISR(u)
    \/ \E o \in Objects : Available(o)
    \/ \E o \in Objects : AvailableNoPool(o)
    \/ \E o \in Objects, st \in BOOLEAN :
          \E n \in BeginCounts(o) : Begin(o, TRUE, n, st, "ok", "ok")
    \/ \E o \in Objects : Start(o, "ok")
    \/ \E o \in Objects : Stop(o)
    \/ \E o \in Objects : End(o)

SpecMisuse == Init /\ [][NextMisuse]_vars

\* object o owns no unit: no begin() of it has succeeded since it was
\* constructed or ended
OwnsNothing(o) == \A u \in Units : hist[u].owner # o

\* C29: an object that owns no unit, begin() having failed on it or not,
\* behaves as unconfigured: available() returns false and never reads
\* through a missing pool, and start(), stop() and end() return failure;
\* none of them changes anything.
C29_FailedBeginUnconfigured ==
    [][\A o \in Objects :
         (OwnsNothing(o) /\ tick' = tick) =>
            /\ ~(AvailableNoPool(o) /\ (ret' # ret \/ app' # app))
            /\ Available(o) => ~ret'
            /\ Start(o, "ok") => (~ret' /\ OnlyRet)
            /\ Stop(o) => (~ret' /\ OnlyRet)
            /\ End(o) => (~ret' /\ OnlyRet)]_vars

\* C30: begin() on an object whose engine is configured and converting
\* returns failure and changes nothing: descriptor, pins, pool and queues,
\* armed buffers and the running transfer are as before.
C30_SecondBeginRejected ==
    [][\A o \in Objects :
         (Configured(o) /\ hist[descr[o]].owner = o /\ Running(descr[o])
             /\ tick' = tick /\ held' = held /\ app' = app) =>
            \A n \in BufCounts, st \in BOOLEAN :
               Begin(o, TRUE, n, st, "ok", "ok") => (~ret' /\ OnlyRet)]_vars

\* a converting engine that has published a buffer, the last call on it
\* having returned failure
C30_Witness ==
    \E o \in Objects :
        /\ Configured(o) /\ hist[descr[o]].owner = o /\ Running(descr[o])
        /\ Readable(pool[descr[o]]) /\ tick >= 1
        /\ ret = FALSE /\ app.pc = "idle"


-----------------------------------------------------------------------------
(* DMA targets, teardown, cache maintenance, queue bounds, small pools       *)

\* the buffers of unit u that are not armed: in the free queue, in the ready
\* queue, or with the application
NotArmed(u) ==
    Range(pool[u].wr) \cup Range(pool[u].rd) \cup held[u] \cup InFlush(u)

\* C31: while a unit converts, in every state start() or the completion
\* handler leaves, the two DMA targets are the buffers of the two armed
\* slots, slot for slot, both present and distinct; no target is a buffer
\* that is in the free queue, in the ready queue or with the application.
C31_TargetsAreArmed ==
    \A u \in Units : Running(u) =>
        /\ HasPool(u)
        /\ dmabuf[u][1] # 0 /\ dmabuf[u][2] # 0 /\ dmabuf[u][1] # dmabuf[u][2]
        /\ hw[u].m = dmabuf[u]
        /\ \A i \in 1 .. 2 : hw[u].m[i] \notin NotArmed(u)

\* a converting unit has rotated its buffers: after an overflow and a read
\* the targets are no longer the two buffers begin() armed, and the
\* application holds one of the others
C31_Witness ==
    \E u \in Units :
        /\ Running(u) /\ hist[u].ovf /\ held[u] # {} /\ tick >= 3
        /\ hw[u].m # <<1, 2>> /\ hw[u].m = dmabuf[u]


\* end() statement by statement, the interrupt being free to come between two
\* statements.  adc_descr_deinit, "Stop conversion first":
DeinitStop(o) ==
    /\ app.pc = "idle"
    /\ descr[o] # NULL
    /\ hw' = [hw EXCEPT ![descr[o]] = adc_descr_stop(@)]
    /\ app' = [Idle EXCEPT !.pc = "deinit", !.unit = descr[o], !.buf = 0]
    /\ UNCHANGED <<adc_index, dual_mode, adc_pins, descr, pool, dmabuf, held, tick, ret, hist>>

\* "Release DMA buffers": one turn of the loop, i = app.buf
DeinitRelease ==
    /\ app.pc = "deinit" /\ app.buf < 2
    /\ LET u == app.unit
           b == dmabuf[u][app.buf + 1]
       IN  IF b # 0
           THEN /\ pool' = [pool EXCEPT ![u] = Free(@, b)]
                /\ dmabuf' = [dmabuf EXCEPT ![u][app.buf + 1] = 0]
           ELSE UNCHANGED <<pool, dmabuf>>
    /\ app' = [app EXCEPT !.buf = @ + 1]
    /\ UNCHANGED <<adc_index, dual_mode, adc_pins, descr, hw, held, tick, ret, hist>>

\* "Deallocate buffer pool", then end() resets the object's descriptor
\* pointer and returns
DeinitDelete(o) ==
    /\ app.pc = "deinit" /\ app.buf = 2
    /\ descr[o] = app.unit
    /\ pool' = [pool EXCEPT ![app.unit] = IF HasPool(app.unit) THEN NoPool ELSE @]
    /\ held' = [held EXCEPT ![app.unit] = {}]
    /\ hist' = [hist EXCEPT ![app.unit] = HistNone]
    /\ descr' = [descr EXCEPT ![o] = end_descr(o)]
    /\ app' = Idle
    /\ ret' = TRUE
    /\ UNCHANGED <<adc_index, dual_mode, adc_pins, dmabuf, hw, tick>>

\* the handler can use the unit: it has a pool and both slots hold a buffer
Usable(u) == HasPool(u) /\ dmabuf[u][1] # 0 /\ dmabuf[u][2] # 0

\* a transfer completes on a converting unit, whatever the state of its
\* descriptor: the handler dereferences descr->dmabuf[ct] and descr->pool,
\* and with one of them null the program faults
ISRAny(u) ==
    /\ Running(u)
    /\ IF Usable(u)
       THEN ISR(u)
       ELSE /\ app' = [app EXCEPT !.pc = "fault"]
            /\ UNCHANGED <<adc_index, dual_mode, adc_pins, descr, pool, dmabuf, hw, held, tick,
                           ret, hist>>

\* one engine: configured, started, read, stopped, and torn down step by step
NextTeardown ==
    \/ \E u \in Units : ISRAny(u)
    \/ Read("a")
    \/ \E u \in Units, b \in 1 .. MaxBuffers : Release(u, b)
    \/ \E n \in BeginCounts("a"), st \in BOOLEAN : Begin("a", TRUE, n, st, "ok", "ok")
    \/ Start("a", "ok")
    \/ Stop("a")
    \/ DeinitStop("a")
    \/ DeinitRelease
    \/ DeinitDelete("a")

SpecTeardown == InitGeom /\ [][NextTeardown]_vars

\* the unit is being torn down: end() is between its first and last statement
TearingDown(u) == app.pc = "deinit" /\ app.unit = u

\* C32: stop() and end() halt the unit's transfer first: from the first
\* statement of the teardown on, while armed buffers are released and the
\* pool is deleted, and for as long as the unit has no pool, the unit does
\* not convert, so that no completion handler runs on it; a handler that
\* runs finds the pool and both armed buffers, and stop() leaves the unit
\* halted.
C32_HaltBeforeTeardown ==
    /\ [](\A u \in Units : (TearingDown(u) \/ ~Usable(u)) => ~Running(u))
    /\ [](app.pc # "fault")
    /\ [][\A u \in Units :
            /\ (tick' # tick /\ hw'[u] # hw[u]) => (Usable(u) /\ ~TearingDown(u))
            /\ (app.pc = "idle" /\ descr["a"] = u /\ tick' = tick /\ Stop("a")) =>
                  ~(hw'[u].en /\ (hw'[u].tim \/ dual_mode'))]_vars

\* an engine that has converted with overflow is half torn down: halted,
\* the first armed buffer released, the second still armed, the pool there
C32_Witness ==
    /\ app.pc = "deinit" /\ app.buf = 1 /\ tick >= 2
    /\ HasPool(app.unit) /\ hist[app.unit].ovf
    /\ dmabuf[app.unit][1] = 0 /\ dmabuf[app.unit][2] # 0


\* the application calls stop(), clear() and start() on a configured engine:
\* the engine is halted from the stop() on, so no transfer completes inside
\* clear(); s is what the HAL answers to start().  The history forgets the
\* overflows of the capture that was stopped.
StopClearStart(o, s) ==
    /\ app.pc = "idle"
    /\ ~start_rejects(o)
    /\ LET u  == descr[o]
           sr == start_hw(adc_descr_stop(hw[u]), dmabuf[u], s)
       IN  /\ hw' = [hw EXCEPT ![u] = sr.hw]
           /\ pool' = [pool EXCEPT ![u] = flush(@)]
           /\ ret' = sr.ok
           /\ hist' = [hist EXCEPT ![u] =
                 [Resumed(@) EXCEPT !.sovf = FALSE, !.gap = @ \ Range(pool[u].rd)]]
    /\ UNCHANGED <<adc_index, dual_mode, adc_pins, descr, dmabuf, held, app, tick>>

\* one engine that is configured, read, and stopped, cleared and restarted
NextClearRestart ==
    \/ \E u \in Units : ISR(u)
    \/ Read("a")
    \/ \E u \in Units, b \in 1 .. MaxBuffers : Release(u, b)
    \/ \E n \in BeginCounts("a"), st \in BOOLEAN : Begin("a", TRUE, n, st, "ok", "ok")
    \/ \E s \in StartResults : StopClearStart("a", s)
    \/ End("a")

SpecClearRestart == InitGeom /\ [][NextClearRestart]_vars

\* C33: a buffer that read() returns carries DISCONT only if a completion
\* since the most recent start() found the free queue empty: after stop(),
\* clear() and start() no buffer read carries DISCONT until a completion of
\* the new capture overflows, whatever happened before the stop().
C33_DiscontSinceStart ==
    [][\A u \in Units : \A b \in 1 .. MaxBuffers :
         (ReadStep(u, b) /\ DMA_BUFFER_DISCONT \in pool'[u].flags[b]) => hist[u].sovf]_vars


\* the application writes samples into a buffer it holds (buf[i] = ...,
\* memcpy to buf.data()): the writes stay in the data cache
AppWrite(u, b) ==
    /\ app.pc = "idle"
    /\ HasPool(u)
    /\ b \in held[u]
    /\ pool[u].cache[b] # "dirty"
    /\ pool' = [pool EXCEPT ![u].cache[b] = "dirty"]
    /\ UNCHANGED <<adc_index, dual_mode, adc_pins, descr, dmabuf, hw, held, app, tick, ret, hist>>

\* one engine whose application reads the buffers, writes into them (it
\* processes the samples in place) and releases them
NextCache ==
    \/ \E u \in Units : ISR(u)
    \/ Read("a")
    \/ \E u \in Units, b \in 1 .. MaxBuffers : AppWrite(u, b)
    \/ \E u \in Units, b \in 1 .. MaxBuffers : Release(u, b)
    \/ Clear("a")
    \/ FlushPop
    \/ FlushRelease
    \/ FlushDone
    \/ \E n \in BeginCounts("a"), st \in BOOLEAN : Begin("a", TRUE, n, st, "ok", "ok")
    \/ Start("a", "ok")
    \/ Stop("a")
    \/ End("a")

SpecCache == InitGeom /\ [][NextCache]_vars

\* C34: the handler invalidates the finished buffer before it publishes it:
\* no buffer in the ready queue or with the application (read, or being
\* moved by clear()) has memory the DMA wrote that the cache does not show.
C34_InvalidatedBeforePublished ==
    \A u \in Units : HasPool(u) =>
        \A b \in Range(pool[u].rd) \cup held[u] \cup InFlush(u) :
            pool[u].cache[b] # "stale"

\* the application holds a buffer the DMA filled, invalidated, while an
\* armed buffer that was overwritten in place is still stale
C34_Witness ==
    \E u \in Units :
        /\ HasPool(u) /\ tick >= 2
        /\ \E b \in held[u] : pool[u].ts[b] # 0 /\ pool[u].cache[b] = "clean"
        /\ \E i \in 1 .. 2 : pool[u].cache[dmabuf[u][i]] = "stale"

\* C35: a buffer the handler takes from the free queue and arms has no
\* pending writes left in the cache when it becomes a DMA target.
C35_FlushedBeforeArmed ==
    [][\A u \in Units : \A i \in 1 .. 2 :
         (IsrStep(u) /\ HasPool(u) /\ dmabuf'[u][i] # dmabuf[u][i]) =>
            pool'[u].cache[dmabuf'[u][i]] # "dirty"]_vars


\* C36: while a unit has a pool of N buffers its ready queue holds at most
\* N-2 of them, whatever completions have been handled and however long
\* the application has stayed away.
C36_ReadyAtMostNMinus2 ==
    \A u \in Units : HasPool(u) => Len(pool[u].rd) <= pool[u].n - 2

\* the ready queue of a pool of at least 3 is full (N-2 buffers) and the
\* completions that followed have overflowed in place
C36_Witness ==
    \E u \in Units :
        /\ HasPool(u) /\ pool[u].n >= 3 /\ Len(pool[u].rd) = pool[u].n - 2
        /\ hist[u].ovf /\ Stalled(u) /\ tick >= 3

\* C37: with a pool of 2 buffers both are armed and the free queue is empty
\* at every completion: every completion overflows in place (the finished
\* buffer is flagged and stays armed), the ready queue stays empty,
\* available() is false and read() does not return.
C37_TwoBuffersStarve ==
    /\ [](\A u \in Units : (HasPool(u) /\ pool[u].n = 2) =>
             /\ pool[u].wr = <<>> /\ pool[u].rd = <<>> /\ held[u] = {}
             /\ \A o \in Objects : descr[o] = u => ~available(o))
    /\ [][\A u \in Units : (HasPool(u) /\ pool[u].n = 2) =>
            /\ IsrStep(u) =>
                  /\ dmabuf'[u] = dmabuf[u]
                  /\ DMA_BUFFER_DISCONT \in pool'[u].flags[dmabuf[u][(1 - hw'[u].ct) + 1]]
            /\ \A b \in 1 .. MaxBuffers : ~ReadStep(u, b)]_vars

\* an engine of 2 buffers has converted: both armed buffers were overwritten
\* in place and nothing is readable
C37_Witness ==
    \E u \in Units :
        /\ HasPool(u) /\ pool[u].n = 2 /\ Running(u) /\ tick >= 2
        /\ \A i \in 1 .. 2 : DMA_BUFFER_DISCONT \in pool[u].flags[dmabuf[u][i]]
        /\ ~Readable(pool[u])


\* n_buffers values begin() is given when the application does not keep to
\* the two armed buffers: begin() does not look at the value
SmallCounts == 0 .. MaxBuffers

\* start() on a configured engine, whatever its armed slots hold: with an
\* empty slot start() calls data() (and size()) through a null pointer, and
\* either the program faults or the stream is started on whatever address
\* was read
StartAny(o) ==
    IF start_rejects(o) \/ Usable(descr[o])
    THEN Start(o, "ok")
    ELSE /\ app.pc = "idle"
         /\ \/ /\ app' = [app EXCEPT !.pc = "fault"]
               /\ UNCHANGED <<hw, ret>>
            \/ /\ hw' = [hw EXCEPT ![descr[o]] = start_hw(@, dmabuf[descr[o]], "ok").hw]
               /\ ret' = TRUE
               /\ UNCHANGED app
         /\ UNCHANGED <<adc_index, dual_mode, adc_pins, descr, pool, dmabuf, held, tick, hist>>

\* one engine configured with any buffer count, then started, read, stopped
\* and ended
NextSmall ==
    \/ \E u \in Units : ISRAny(u)
    \/ Read("a")
    \/ \E u \in Units, b \in 1 .. MaxBuffers : Release(u, b)
    \/ \E n \in SmallCounts : Begin("a", TRUE, n, FALSE, "ok", "ok")
    \/ StartAny("a")
    \/ Stop("a")
    \/ End("a")

SpecSmall == InitGeom /\ [][NextSmall]_vars

\* C38: a begin() that returns success leaves, for every buffer count asked
\* for, 0 and 1 included, two distinct buffers in the two armed slots, so
\* that neither start() nor the completion handler comes upon an empty slot.
C38_BothSlotsArmed ==
    /\ [][\A o \in Objects :
            (app.pc = "idle" /\ ~Configured(o) /\ Configured(o)' /\ ret') =>
               LET db == dmabuf'[descr'[o]]
               IN  db[1] # 0 /\ db[2] # 0 /\ db[1] # db[2]]_vars
    /\ [](app.pc # "fault")


-----------------------------------------------------------------------------
(* read(), the call and the return *)

\* read() is called on an object whose descriptor has a pool: the
\* application is in the loop while (!available()) __WFI();
ReadCall(o) ==
    /\ app.pc = "idle"
    /\ descr[o] # NULL
    /\ HasPool(descr[o])
    /\ app' = [Idle EXCEPT !.pc = "read", !.unit = descr[o]]
    /\ UNCHANGED <<adc_index, dual_mode, adc_pins, descr, pool, dmabuf, hw, held, tick, ret, hist>>

\* available() holds: read() leaves the loop and returns
\* *descr->pool->alloc(DMA_BUFFER_READ)
ReadReturn ==
    /\ app.pc = "read"
    /\ Readable(pool[app.unit])
    /\ LET u == app.unit
           b == read_buf(pool[u])
       IN  /\ pool' = [pool EXCEPT ![u] = read_pool(@)]
           /\ held' = [held EXCEPT ![u] = @ \cup ({b} \ {0})]
           /\ hist' = [hist EXCEPT ![u] = Resumed(@)]
    /\ ret' = TRUE
    /\ app' = Idle
    /\ UNCHANGED <<adc_index, dual_mode, adc_pins, descr, dmabuf, hw, tick>>

\* read() on an object whose descriptor has no pool: available() calls
\* readable() through the null descr->pool; the program faults, or the call
\* comes back with whatever was read
ReadNoPool(o) ==
    /\ app.pc = "idle"
    /\ descr[o] # NULL
    /\ ~HasPool(descr[o])
    /\ \/ /\ app' = [app EXCEPT !.pc = "fault"]
          /\ UNCHANGED ret
       \/ /\ ret' = TRUE
          /\ UNCHANGED app
    /\ UNCHANGED <<adc_index, dual_mode, adc_pins, descr, pool, dmabuf, hw, held, tick, hist>>

\* two objects; read() is called whatever the state of the object
NextRead ==
    \/ \E u \in Units : ISR(u)
    \/ \E o \in Objects : ReadCall(o)
    \/ ReadReturn
    \/ \E o \in Objects : ReadNull(o)
    \/ \E o \in Objects : ReadNoPool(o)
    \/ \E u \in Units, b \in 1 .. MaxBuffers : Release(u, b)
    \/ \E o \in Objects, n \in BufCounts, st \in BOOLEAN : Begin(o, TRUE, n, st, "ok", "ok")
    \/ \E o \in Objects : Start(o, "ok")
    \/ \E o \in Objects : Stop(o)
    \/ \E o \in Objects : End(o)

SpecRead == Init /\ [][NextRead]_vars

\* read() is waiting on a unit that does not convert and has nothing ready
WaitingOnHalted ==
    /\ app.pc = "read"
    /\ ~Readable(pool[app.unit])
    /\ ~Running(app.unit)

\* a read() that has waited returns the head of the ready queue, popped
C39_ReturnsHead ==
    [][(app.pc = "read" /\ app'.pc = "idle") =>
          /\ Readable(pool[app.unit])
          /\ held'[app.unit] = held[app.unit] \cup {Head(pool[app.unit].rd)}
          /\ pool'[app.unit].rd = Tail(pool[app.unit].rd)
          /\ ret']_vars

\* a read() waiting on a halted unit with an empty ready queue never returns
C39_WaitsForever ==
    [](WaitingOnHalted => [](app.pc = "read"))

\* read() on an object that is not configured returns the null buffer at
\* once and changes nothing else
C39_NullWhenUnconfigured ==
    [][\A o \in Objects :
         (app.pc = "idle" /\ ~Configured(o) /\ (ReadNull(o) \/ ReadNoPool(o))) =>
            (~ret' /\ OnlyRet)]_vars

\* C39: read() on a configured engine returns only the buffer popped from
\* the head of the ready queue and does not return while the ready queue is
\* empty (on a halted engine with an empty ready queue it waits for ever);
\* on an engine that is not configured it returns the null buffer without
\* waiting.
C39_ReadBlocksOrNull ==
    /\ C39_ReturnsHead
    /\ C39_WaitsForever
    /\ C39_NullWhenUnconfigured

====
